---- MODULE Spec2Model ----
(***************************************************************************)
(* Smart Copy scheduling and execution engine (lwa-project/smart_copy).    *)
(*                                                                         *)
(* State: the supervisor (smartFunctions.SmartCopy), the activity monitor  *)
(* (smartThreads.MonitorStation), one worker per recorder                  *)
(* (smartThreads.ManageDR) with its DiskBackedQueue (in-memory FIFO plus   *)
(* rows of the shared store) and its executor                              *)
(* (smartCommon.InterruptibleCopy), the remote copy lock rcl and the       *)
(* serial number generator sng; the request handler                        *)
(* (smart_cmnd.MCSCommunicate) and the reference number server             *)
(* (MCS.ReferenceServer).                                                  *)
(*                                                                         *)
(* Modelling conventions                                                   *)
(*  - A call binds to the callee as the callee's body reads its task: the  *)
(*    7-field task (host, hostpath, dest, destpath, id, tries, last_try)   *)
(*    is what put/get/restore carry, the queue of recorder dr has          *)
(*    queue_name = dr, and MonitorErrorLogs is taken to be present when    *)
(*    __iniProcess starts it.                                              *)
(*  - One pass of ManageDR.processQueue is three steps (the readiness      *)
(*    check, the completion handling, the dispatch), so that the calls     *)
(*    other threads make (pause, resume, cancel, child exit) interleave    *)
(*    with it as they do between the worker's reads.                       *)
(*  - The bodies of __iniProcess and __shtProcess run while every worker   *)
(*    sleeps at the top of its loop (ManageDR.stop joins the worker).      *)
(*  - A purge (ManageDR.purgeCompleted) is a step of its own per log       *)
(*    entry, between the completion handling and the dispatch.             *)
(*  - time.time() is the variable now, in seconds; sizes are in TiB.       *)
(***************************************************************************)
EXTENDS Integers, Sequences, FiniteSets, TLC

\* ------------------------------------------------------------ bounds
MaxId == 2          \* jobs submitted per process run (ids 1..MaxId)
MaxCalls == 2       \* accepted INI/SHT calls per behaviour
MaxCancel == 1      \* SCN commands per behaviour
MaxTicks == 3       \* clock advances per behaviour
MaxCrash == 1       \* process restarts per behaviour
MaxDispatch == 4    \* executors constructed per recorder and process run
MaxRetry == 2       \* config['max_retry']
WaitRetry == 12     \* config['wait_retry'], hours
PurgeSize == 2      \* config['purge_size'], TiB
MaxPackets == 3     \* command packets per behaviour
MaxReference == 2   \* reference numbers carried by the packets (1..MaxReference)
MaxIssued == 25     \* largest reference id the server sends

\* ------------------------------------------------------------ program constants
DaySeconds == 86400
RefStep == 10       \* checkpoint interval and restart skip of the reference server
RefMax == 999999999 \* largest reference id
SlotsKept == 4      \* slot times kept in commandStatus
HourSeconds == 3600
TickSeconds == 12 * HourSeconds    \* one advance of the clock
StartTime == 2 * DaySeconds       \* time.time() when the process starts

DRs == {"DR1", "DR2"}
FirstDR == "DR1"
ArchiveHost == "leo10g.unm.edu"
DELETE_MARKER_QUEUE == "smartcopy_queue_delete_this_file"
DELETE_MARKER_NOW == "smartcopy_now_delete_this_file"
TooSoon == "error: too soon to retry"
Stderrs == {"error: rsync A", "error: rsync B"}
Ids == 1..MaxId

None == <<>>
Welcome == "Welcome to DP SC"

VARIABLES
    status,          \* SmartCopy.currentState['status']
    lastLog,         \* SmartCopy.currentState['lastLog']
    activeProcess,   \* SmartCopy.currentState['activeProcess']
    spawned,         \* INI/SHT threads started and not yet at their first line
    created,         \* SmartCopy.currentState['drThreads'] is not None
    globalInhibit,   \* SmartCopy.globalInhibit[dr]
    monThread,       \* MonitorStation.thread is not None
    busy,            \* MonitorStation.busy[dr]
    wthread,         \* ManageDR.thread is not None
    inhibit,         \* ManageDR.inhibit
    active,          \* ManageDR.active: None or <<executor>>
    results,         \* ManageDR.results: id -> status string ("" = no entry)
    fifo,            \* DiskBackedQueue in-memory FIFO
    pc,              \* position of the worker in processQueue
    ready,           \* processQueue local readyToProcess
    orphans,         \* executors with a live child that no worker refers to
    store,           \* rows of queue_items, in rowid order
    completedLog,    \* completed_<dr>.log
    errorLog,        \* error_<dr>.log
    rcl,             \* value of the semaphore rcl
    sn,              \* SerialNumber.sn
    now,             \* time.time()
    holder,          \* history: recorders whose worker acquired rcl and has not released it
    putLog,          \* history: ids accepted by addCopyCommand, per recorder
    dispatchLog,     \* history: ids for which an executor was constructed, per recorder
    requeueLog,      \* history: ids re-queued by the retry policy, per recorder
    contended,       \* history: a job of the recorder was re-queued, canceled or cross-host
    lastErr,         \* history: the status the latest failed child left, per recorder
    canceledActive,  \* history: ids canceled by SCN while they were a worker's active job
    canceledPending, \* history: ids canceled by SCN while queued and never yet started
    crashStore,      \* history: the store at the latest process restart
    restored,        \* DiskBackedQueue.restored_items
    tLastPurge,      \* processQueue local tLastPurge
    purging,         \* purgeCompleted locals: entries still to visit, retry, failed; and
                     \* what its latest call returned
    rmLog,           \* history: the delete commands issued, per recorder
    commandStatus,   \* MCSCommunicate.commandStatus, in insertion order
    refThread,       \* ReferenceServer.thread is not None
    ref,             \* _generator local ref
    refPc,           \* position of _generator: polling, or about to checkpoint
    refFile,         \* content of .sc_reference_id (0 = no file)
    issuedBefore,    \* history: ids sent before the latest start of the server
    issuedAfter,     \* history: ids sent since the latest start of the server
    unsent,          \* history: a reply could not be sent since the latest start
    txFailed,        \* history: the queue operations whose store transaction failed
    callbacks,       \* history: the processDRStateChange calls of the latest monitor
                     \* operation that called back for the recorder
    cmdQueue,        \* MonitorStation.cmdQueue, in insertion order
    parsed,          \* history: the lines of the latest call of _parseLogData and the
                     \* parity of the number of calls
    resultsDict,     \* ManageDR.results of one recorder as the LimitedSizeDict it is
    resuming,        \* the recorders for which resumeCopyQueue has resumed the worker and
                     \* not yet cleared globalInhibit
    iniDied,         \* the __iniProcess threads that an exception has ended
    outstanding,     \* history: per recorder, the gets of the worker minus its task_dones
    nCalls, nCancel, nTicks, nCrash

vars == <<status, lastLog, activeProcess, spawned, created, globalInhibit, monThread, busy,
          wthread, inhibit, active, results, fifo, pc, ready, orphans, store,
          completedLog, errorLog, rcl, sn, now, holder, putLog, dispatchLog,
          requeueLog, contended, lastErr, canceledActive, canceledPending,
          crashStore, restored, tLastPurge, purging, rmLog, commandStatus,
          refThread, ref, refPc, refFile, issuedBefore, issuedAfter, unsent,
          txFailed, callbacks, cmdQueue, parsed, resultsDict, resuming, iniDied,
          outstanding,
          nCalls, nCancel, nTicks, nCrash>>

supVars == <<status, lastLog, activeProcess, spawned, created, globalInhibit, nCalls, nCancel>>
monVars == <<monThread, busy, callbacks, cmdQueue, parsed>>
diskVars == <<store, completedLog, errorLog, txFailed>>
histVars == <<holder, putLog, dispatchLog, requeueLog, contended, lastErr, canceledActive,
              canceledPending>>
crashVars == <<crashStore, restored, nCrash>>
cacheVars == <<resultsDict>>
callVars == <<resuming, iniDied>>
queueVars == <<outstanding>>
auxVars == <<cacheVars, callVars, queueVars>>
clockVars == <<now, nTicks>>
purgeVars == <<tLastPurge, purging, rmLog>>
refVars == <<refThread, ref, refPc, refFile, issuedBefore, issuedAfter, unsent>>
mcsVars == <<commandStatus, refVars>>

\* ------------------------------------------------------------ InterruptibleCopy
Task(host, hostpath, dest, destpath, id, tries, last_try) ==
    [host |-> host, hostpath |-> hostpath, dest |-> dest, destpath |-> destpath,
     id |-> id, tries |-> tries, last_try |-> last_try]

getTaskSpecification(e) ==
    Task(e.host, e.hostpath, e.dest, e.destpath, e.id, e.tries, e.last_try)

isRemote(e) == e.host # e.dest

isRunning(e) == e.thread = "alive"

isComplete(e) ==
    IF isRunning(e) THEN FALSE
    ELSE IF e.status # "paused" THEN TRUE
    ELSE FALSE

isSuccessful(e) ==
    IF ~isComplete(e) THEN FALSE ELSE e.status = "complete"

IsErrorStatus(s) == s \in Stderrs \cup {TooSoon}

isFailed(e) ==
    IF ~isComplete(e) THEN FALSE ELSE IsErrorStatus(e.status)

\* InterruptibleCopy.pause: kill the child, join, forget the thread
ExecPause(e) ==
    IF e.thread # "none"
    THEN [e EXCEPT !.thread = "none", !.status = "paused"]
    ELSE e

\* InterruptibleCopy.resume at time t
ExecResume(e, t) ==
    IF e.thread = "none"
    THEN IF e.destpath = DELETE_MARKER_QUEUE
         THEN [e EXCEPT !.status = "complete"]
         ELSE [e EXCEPT !.thread = "alive",
                        !.tries = IF e.status # "paused"
                                  THEN e.tries + 1
                                       + (IF e.destpath = DELETE_MARKER_NOW THEN 100 ELSE 0)
                                  ELSE e.tries,
                        !.last_try = IF e.status # "paused" THEN t ELSE e.last_try,
                        !.status = "active"]
    ELSE e

\* InterruptibleCopy.cancel: isRunning is the bound method, always true
ExecCancel(e) == [ExecPause(e) EXCEPT !.status = "canceled"]

\* InterruptibleCopy.__init__ at time t
NewExec(task, t) ==
    LET e0 == [host |-> task.host, hostpath |-> task.hostpath, dest |-> task.dest,
               destpath |-> task.destpath, id |-> task.id, tries |-> task.tries,
               last_try |-> task.last_try, thread |-> "none", status |-> ""]
    IN IF t - e0.last_try > DaySeconds
       THEN ExecResume(e0, t)
       ELSE [e0 EXCEPT !.status = TooSoon]

\* the child's exit code as _runCopy/_runDelete turn it into a status
ExitStatus(rc, stderr) ==
    IF rc = 0 THEN "complete"
    ELSE IF rc < 0 THEN "paused"
    ELSE stderr

\* ------------------------------------------------------------ DiskBackedQueue
Row(dr, task, st) == [queue_name |-> dr, task |-> task, status |-> st]

RECURSIVE SelectRows(_, _, _)
SelectRows(rows, dr, st) ==
    IF rows = <<>> THEN <<>>
    ELSE IF Head(rows).queue_name = dr /\ Head(rows).status = st
         THEN <<Head(rows)>> \o SelectRows(Tail(rows), dr, st)
         ELSE SelectRows(Tail(rows), dr, st)

RECURSIVE InsertByCommandId(_, _)
InsertByCommandId(sorted, row) ==
    IF sorted = <<>> THEN <<row>>
    ELSE IF Head(sorted).task.id <= row.task.id
         THEN <<Head(sorted)>> \o InsertByCommandId(Tail(sorted), row)
         ELSE <<row>> \o sorted

\* ORDER BY command_id (rows of equal command_id keep their rowid order)
RECURSIVE OrderByCommandId(_)
OrderByCommandId(rows) ==
    IF rows = <<>> THEN <<>>
    ELSE InsertByCommandId(OrderByCommandId(SubSeq(rows, 1, Len(rows) - 1)),
                           rows[Len(rows)])

\* an integrity check that resets nothing (what C9 would miss)
CheckIntegritySkipped(rows, dr) == rows

\* DiskBackedQueue._check_integrity: processing rows of this queue become pending
CheckIntegrity(rows, dr) ==
    [i \in 1..Len(rows) |->
        IF rows[i].queue_name = dr /\ rows[i].status = "processing"
        THEN [rows[i] EXCEPT !.status = "pending"]
        ELSE rows[i]]

\* DiskBackedQueue._restore_pending_items: the tasks pushed to the FIFO
RestorePending(rows, dr) ==
    LET sel == OrderByCommandId(SelectRows(rows, dr, "pending"))
    IN [i \in 1..Len(sel) |-> sel[i].task]

\* a put at the head of the FIFO (what C7 would miss)
FifoPutFront(q, task) == <<task>> \o q

\* Queue.put / Queue.get on the in-memory FIFO (DiskBackedQueue.put, .get call super())
FifoPut(q, task) == Append(q, task)
FifoHead(q) == Head(q)
FifoRest(q) == Tail(q)

\* DiskBackedQueue.put: the store after the INSERT
StorePut(rows, dr, task) == Append(rows, Row(dr, task, "pending"))

\* DiskBackedQueue.get: the store after the UPDATE
StoreGet(rows, dr, task) ==
    [i \in 1..Len(rows) |->
        IF rows[i].queue_name = dr /\ rows[i].task.id = task.id
           /\ rows[i].status = "pending"
        THEN [rows[i] EXCEPT !.status = "processing"]
        ELSE rows[i]]

RECURSIVE DeleteProcessing(_, _)
DeleteProcessing(rows, dr) ==
    IF rows = <<>> THEN <<>>
    ELSE IF Head(rows).queue_name = dr /\ Head(rows).status = "processing"
         THEN DeleteProcessing(Tail(rows), dr)
         ELSE <<Head(rows)>> \o DeleteProcessing(Tail(rows), dr)

\* a task_done that leaves the processing row in the store (what C25 would miss)
TaskDoneForgotten(rows, dr) == rows

\* DiskBackedQueue.task_done: the store after the DELETE
StoreTaskDone(rows, dr) == DeleteProcessing(rows, dr)


\* ------------------------------------------------------------ ManageDR
\* the part of a worker that pause/resume/cancel touch
W(a, r, i) == [active |-> a, results |-> r, inhibit |-> i]

WorkerOf(dr) == W(active[dr], results[dr], inhibit[dr])

\* ManageDR.pause
WPause(w) ==
    IF w.active # None
    THEN W(<<ExecPause(w.active[1])>>,
           [w.results EXCEPT ![w.active[1].id] = "paused"], TRUE)
    ELSE W(w.active, w.results, TRUE)

\* ManageDR.resume at time t
WResume(w, t) ==
    IF w.active # None
    THEN W(<<ExecResume(w.active[1], t)>>,
           [w.results EXCEPT ![w.active[1].id] = "active/resumed"], FALSE)
    ELSE W(w.active, w.results, FALSE)

\* ManageDR.cancelCopyCommand(id)
WCancel(w, id) ==
    W(IF w.active # None /\ w.active[1].id = id
      THEN <<ExecCancel(w.active[1])>> ELSE w.active,
      [w.results EXCEPT ![id] = "canceled"], w.inhibit)

\* ManageDR.__init__: results cache from the restored tasks
InitResults(tasks) ==
    [id \in Ids |-> IF \E i \in 1..Len(tasks) : tasks[i].id = id THEN "queued" ELSE ""]

HasSpec(hostpath) == hostpath = "/data/DROS/Spec/f"
IsArchive(dest) == dest = ArchiveHost

\* a success branch that logs every copy (what C13 would miss)
LogsCompletedAlways(e) == TRUE

\* processQueue, success branch: is the copy written to completed_<dr>.log
LogsCompleted(e) ==
    IF HasSpec(e.hostpath)
    THEN isRemote(e) /\ IsArchive(e.dest)
    ELSE TRUE

\* a give-up test that allows one try too many (what C10 would miss)
GivesUpLate(e) == e.tries > MaxRetry

\* processQueue, failure branch: is the copy given up (error log) rather than re-queued
GivesUp(e) == e.tries >= MaxRetry

\* a cool-down test that never holds a job back (what C12 would miss)
CoolingDownNever(task, t) == FALSE

\* processQueue: is a task taken from the queue still cooling down at time t
CoolingDown(task, t) ==
    task.tries > 0 /\ (t - task.last_try) < WaitRetry * HourSeconds

\* a release that leaves the lock as it is (what C3 would miss)
ReleaseForgotten(n) == n

\* rcl.release()
Release(n) == n + 1

\* ManageDR.stop on a worker with a thread: what it does to rcl
StopRelease(n) == Release(n)

Orphaned(o, e) ==
    IF e.thread = "alive"
    THEN IF isRemote(e) THEN [o EXCEPT !.remote = @ + 1] ELSE [o EXCEPT !.standalone = @ + 1]
    ELSE o

\* processQueue line 358: the time of the last purge as the thread computes it at its start
\* (true division: the product gives back the start time, to which 18 hours are added)
FirstPurge(t) == t + 18 * HourSeconds

\* purgeCompleted is not running
NoPurge == [todo |-> <<>>, retry |-> <<>>, failed |-> <<>>, returned |-> "None"]

\* a purge that told success whatever it skipped
PurgeReturnTrue(retry) == "True"

\* purgeCompleted lines 657-666: False when an entry was kept for later
PurgeReturn(retry) == IF Len(retry) > 0 THEN "False" ELSE "True"

\* InterruptibleCopy.getFileSize as written to the completed log, in TiB
LoggedSize(hostpath) == 1

\* purgeCompleted lines 620-629: the sum of the sizes in the completed log
RECURSIVE totalSize(_)
totalSize(log) == IF log = <<>> THEN 0 ELSE LoggedSize(Head(log)) + totalSize(Tail(log))

\* processQueue lines 423-425
PurgeDue(dr) == ready[dr] /\ now - tLastPurge[dr] > DaySeconds

\* purgeCompleted lines 651-655: CalledProcessError lands in the local list failed
FailedEntry(p, f) == [p EXCEPT !.todo = Tail(@), !.failed = Append(@, f)]

\* processQueue lines 364-373: the readiness check
WorkerCheck(dr) ==
    /\ wthread[dr] /\ pc[dr] = "top"
    /\ IF active[dr] # None
       THEN /\ isComplete(active[dr][1])
            /\ pc' = [pc EXCEPT ![dr] = "drain"]
       ELSE /\ ~inhibit[dr]
            /\ pc' = [pc EXCEPT ![dr] = "dispatch"]
    /\ ready' = [ready EXCEPT ![dr] = ~inhibit[dr]]
    /\ UNCHANGED <<supVars, monVars, diskVars, histVars, crashVars, auxVars, clockVars,
                   mcsVars, purgeVars,
                   wthread, inhibit, active, results, fifo, orphans, rcl, sn>>

\* processQueue lines 375-421: the completion handling
WorkerDrain(dr) ==
    /\ wthread[dr] /\ pc[dr] = "drain"
    /\ LET e == active[dr][1]
           done == StoreTaskDone(store, dr)
           requeue == isFailed(e) /\ ~isSuccessful(e) /\ ~GivesUp(e)
       IN /\ results' = [results EXCEPT ![dr][e.id] = e.status]
          /\ completedLog' = IF isSuccessful(e) /\ LogsCompleted(e)
                             THEN [completedLog EXCEPT ![dr] = Append(@, e.hostpath)]
                             ELSE completedLog
          /\ errorLog' = IF ~isSuccessful(e) /\ isFailed(e) /\ GivesUp(e)
                         THEN [errorLog EXCEPT ![dr] =
                                  Append(@, [id |-> e.id, hostpath |-> e.hostpath,
                                             destpath |-> e.destpath, status |-> e.status])]
                         ELSE errorLog
          /\ fifo' = IF requeue
                     THEN [fifo EXCEPT ![dr] = FifoPut(@, getTaskSpecification(e))]
                     ELSE fifo
          /\ store' = IF requeue THEN StorePut(done, dr, getTaskSpecification(e)) ELSE done
          /\ requeueLog' = IF requeue
                           THEN [requeueLog EXCEPT ![dr] =
                                    Append(@, [id |-> e.id, tries |-> e.tries,
                                               status |-> e.status])]
                           ELSE requeueLog
          /\ contended' = IF requeue THEN [contended EXCEPT ![dr] = TRUE] ELSE contended
          /\ rcl' = IF isRemote(e) THEN Release(rcl) ELSE rcl
          /\ holder' = IF isRemote(e) THEN holder \ {dr} ELSE holder
          /\ orphans' = [orphans EXCEPT ![dr] = Orphaned(@, e)]
    /\ active' = [active EXCEPT ![dr] = None]
    /\ outstanding' = [outstanding EXCEPT ![dr] = @ - 1]
    /\ pc' = [pc EXCEPT ![dr] = IF ready[dr] THEN "dispatch" ELSE "top"]
    /\ UNCHANGED <<supVars, monVars, crashVars, cacheVars, callVars, clockVars, mcsVars,
                   purgeVars, wthread, inhibit, ready, sn,
                   putLog, dispatchLog, lastErr, txFailed,
                   canceledActive, canceledPending>>

\* processQueue lines 423-474: the dispatch
WorkerDispatch(dr) ==
    /\ wthread[dr] /\ pc[dr] = "dispatch"
    /\ ~PurgeDue(dr)
    /\ Len(dispatchLog[dr]) < MaxDispatch
    /\ pc' = [pc EXCEPT ![dr] = "top"]
    /\ IF fifo[dr] = <<>>
       THEN \* Queue.Empty
            /\ active' = [active EXCEPT ![dr] = None]
            /\ UNCHANGED <<results, fifo, store, rcl, holder, dispatchLog, contended,
                           outstanding>>
       ELSE LET task == FifoHead(fifo[dr])
                got == StoreGet(store, dr, task)
                done == StoreTaskDone(got, dr)
            IN IF results[dr][task.id] = ""
               THEN \* KeyError: logged, the pass ends
                    /\ fifo' = [fifo EXCEPT ![dr] = FifoRest(@)]
                    /\ store' = got
                    /\ outstanding' = [outstanding EXCEPT ![dr] = @ + 1]
                    /\ UNCHANGED <<active, results, rcl, holder, dispatchLog, contended>>
               ELSE IF results[dr][task.id] = "canceled"
               THEN /\ fifo' = [fifo EXCEPT ![dr] = FifoRest(@)]
                    /\ store' = done
                    /\ UNCHANGED <<active, results, rcl, holder, dispatchLog, contended,
                                   outstanding>>
               ELSE IF CoolingDown(task, now) \/ (task.host # task.dest /\ rcl = 0)
               THEN \* task_done, put back at the tail, continue
                    /\ fifo' = [fifo EXCEPT ![dr] = FifoPut(FifoRest(@), task)]
                    /\ store' = StorePut(done, dr, task)
                    /\ contended' = [contended EXCEPT ![dr] = TRUE]
                    /\ UNCHANGED <<active, results, rcl, holder, dispatchLog, outstanding>>
               ELSE /\ fifo' = [fifo EXCEPT ![dr] = FifoRest(@)]
                    /\ store' = got
                    /\ rcl' = IF task.host # task.dest THEN rcl - 1 ELSE rcl
                    /\ holder' = IF task.host # task.dest THEN holder \cup {dr} ELSE holder
                    /\ active' = [active EXCEPT ![dr] = <<NewExec(task, now)>>]
                    /\ results' = [results EXCEPT ![dr][task.id] = "active/started"]
                    /\ dispatchLog' = [dispatchLog EXCEPT ![dr] = Append(@, task.id)]
                    /\ outstanding' = [outstanding EXCEPT ![dr] = @ + 1]
                    /\ UNCHANGED contended
    /\ UNCHANGED <<supVars, monVars, crashVars, cacheVars, callVars, clockVars, mcsVars,
                   purgeVars, wthread, inhibit, ready,
                   orphans, completedLog, errorLog, txFailed, sn, putLog, requeueLog, lastErr,
                   canceledActive, canceledPending>>

\* processQueue lines 425-427 with purgeCompleted lines 620-637: the size gate, and
\* the log read and unlinked when the gate is passed
WorkerPurge(dr) ==
    /\ wthread[dr] /\ pc[dr] = "dispatch"
    /\ PurgeDue(dr)
    /\ IF totalSize(completedLog[dr]) >= PurgeSize
       THEN /\ purging' = [purging EXCEPT ![dr] = [NoPurge EXCEPT !.todo = completedLog[dr]]]
            /\ completedLog' = [completedLog EXCEPT ![dr] = <<>>]
            /\ pc' = [pc EXCEPT ![dr] = "purge"]
            /\ UNCHANGED tLastPurge
       ELSE /\ tLastPurge' = [tLastPurge EXCEPT ![dr] = now]
            /\ purging' = [purging EXCEPT ![dr] = [NoPurge EXCEPT !.returned = "False"]]
            /\ UNCHANGED <<completedLog, pc>>
    /\ UNCHANGED <<supVars, monVars, histVars, crashVars, auxVars, clockVars, mcsVars,
                   store, errorLog, txFailed, rmLog,
                   wthread, inhibit, active, results, fifo, ready, orphans, rcl, sn>>

\* purgeCompleted lines 639-655: one entry of the log; ok is the outcome of 'sudo rm -f'
PurgeFile(dr, ok) ==
    /\ wthread[dr] /\ pc[dr] = "purge"
    /\ purging[dr].todo # <<>>
    /\ LET f == Head(purging[dr].todo)
       IN IF inhibit[dr]
          THEN \* AssertionError: no command is issued
               /\ purging' = [purging EXCEPT ![dr].todo = Tail(@), ![dr].retry = Append(@, f)]
               /\ UNCHANGED rmLog
          ELSE /\ rmLog' = [rmLog EXCEPT ![dr] = Append(@, [file |-> f, ok |-> ok])]
               /\ purging' = [purging EXCEPT ![dr] = IF ok THEN [@ EXCEPT !.todo = Tail(@)]
                                                      ELSE FailedEntry(@, f)]
    /\ UNCHANGED <<supVars, monVars, diskVars, histVars, crashVars, auxVars, clockVars,
                   mcsVars, tLastPurge,
                   wthread, inhibit, active, results, fifo, pc, ready, orphans, rcl, sn>>

\* purgeCompleted lines 657-668 and processQueue line 427: the retry entries are written back
PurgeDone(dr) ==
    /\ wthread[dr] /\ pc[dr] = "purge"
    /\ purging[dr].todo = <<>>
    /\ completedLog' = IF purging[dr].retry # <<>>
                       THEN [completedLog EXCEPT ![dr] = purging[dr].retry]
                       ELSE completedLog
    /\ purging' = [purging EXCEPT ![dr] =
                       [NoPurge EXCEPT !.returned = PurgeReturn(purging[dr].retry)]]
    /\ tLastPurge' = [tLastPurge EXCEPT ![dr] = now]
    /\ pc' = [pc EXCEPT ![dr] = "dispatch"]
    /\ UNCHANGED <<supVars, monVars, histVars, crashVars, auxVars, clockVars, mcsVars,
                   store, errorLog, txFailed, rmLog,
                   wthread, inhibit, active, results, fifo, ready, orphans, rcl, sn>>

\* the child of the active executor exits with code rc
ExecExit(dr, rc, stderr) ==
    /\ active[dr] # None /\ active[dr][1].thread = "alive"
    /\ active' = [active EXCEPT ![dr] =
                     <<[@[1] EXCEPT !.thread = "dead", !.status = ExitStatus(rc, stderr)]>>]
    /\ lastErr' = IF rc > 0 THEN [lastErr EXCEPT ![dr] = stderr] ELSE lastErr
    /\ UNCHANGED <<supVars, monVars, diskVars, crashVars, auxVars, clockVars, mcsVars,
                   purgeVars, holder, putLog,
                   dispatchLog, requeueLog, contended, canceledActive,
                   canceledPending,
                   wthread, inhibit, results, fifo, pc, ready, orphans, rcl, sn>>

\* the child of an executor no worker refers to exits
OrphanExit(dr) ==
    /\ \/ /\ orphans[dr].remote > 0
          /\ orphans' = [orphans EXCEPT ![dr].remote = @ - 1]
       \/ /\ orphans[dr].standalone > 0
          /\ orphans' = [orphans EXCEPT ![dr].standalone = @ - 1]
    /\ UNCHANGED <<supVars, monVars, diskVars, histVars, crashVars, auxVars, clockVars,
                   mcsVars, purgeVars,
                   wthread, inhibit, active, results, fifo, pc, ready, rcl, sn>>


\* ------------------------------------------------------------ SmartCopy
RECURSIVE RemoveFirst(_, _)
RemoveFirst(seq, x) ==
    IF seq = <<>> THEN <<>>
    ELSE IF Head(seq) = x THEN Tail(seq)
    ELSE <<Head(seq)>> \o RemoveFirst(Tail(seq), x)

InSeq(seq, x) == \E i \in 1..Len(seq) : seq[i] = x

Blocked == InSeq(activeProcess, "INI") \/ InSeq(activeProcess, "SHT")

WorkersAsleep == \A dr \in DRs : pc[dr] = "top"

\* a callback that looks at the recorder's activity only (what C6 would miss)
StateChangeBusyOnly(w, busyState, gi, t) ==
    IF ~busyState THEN WResume(w, t) ELSE WPause(w)

\* SmartCopy.processDRStateChange(dr, busyState) on worker w
StateChange(w, busyState, gi, t) ==
    IF ~busyState /\ ~gi THEN WResume(w, t) ELSE WPause(w)

\* SmartCopy.resumeCopyQueue(dr): the worker is resumed whatever the monitor reports
ResumeQueue(w, busyState, t) == WResume(w, t)

\* SmartCopy.ini / SmartCopy.sht: the check and the start of the thread
Call(name) ==
    /\ ~Blocked
    /\ nCalls < MaxCalls
    /\ nCalls' = nCalls + 1
    /\ spawned' = Append(spawned, name)
    /\ UNCHANGED <<status, lastLog, activeProcess, created, globalInhibit, nCancel, monVars,
                   diskVars, histVars, crashVars, auxVars, clockVars, mcsVars,
                   purgeVars, wthread, inhibit, active,
                   results, fifo, pc, ready, orphans, rcl, sn>>

\* __iniProcess lines 98-100 / __shtProcess lines 163-165
Start(name) ==
    /\ InSeq(spawned, name)
    /\ spawned' = RemoveFirst(spawned, name)
    /\ status' = IF name = "INI" THEN "BOOTING" ELSE "SHUTDWN"
    /\ activeProcess' = Append(activeProcess, name)
    /\ UNCHANGED <<lastLog, created, globalInhibit, nCalls, nCancel, monVars,
                   diskVars, histVars, crashVars, auxVars, clockVars, mcsVars,
                   purgeVars, wthread, inhibit, active,
                   results, fifo, pc, ready, orphans, rcl, sn>>

\* the worker of dr as __iniProcess leaves it
\* one call processDRStateChange(dr, after) made when busy[dr] was before
Invocation(before, after) == [before |-> before, after |-> after]

\* a start that calls back only for a recorder that was idle (what C30 as amended
\* excludes)
StartCallsOnChange(b) == IF b # TRUE THEN <<Invocation(b, TRUE)>> ELSE <<>>

\* MonitorStation.start lines 106-109: the calls for a recorder whose flag was b
StartCalls(b) == <<Invocation(b, TRUE)>>

\* MonitorStation.stop lines 126-134: the calls for a recorder whose flag was b
StopCalls(thread, b) == IF thread THEN <<Invocation(b, TRUE)>> ELSE <<>>

\* the flag of a recorder after MonitorStation.stop
StopBusy(thread, b) == IF thread THEN TRUE ELSE b

IniWorker(dr) ==
    LET w0 == IF monThread /\ created THEN WPause(WorkerOf(dr)) ELSE WorkerOf(dr)
        w1 == IF created
              THEN WPause(w0)
              ELSE W(None, InitResults(RestorePending(CheckIntegrity(store, dr), dr)), TRUE)
        w2 == ResumeQueue(w1, TRUE, now)
    IN StateChange(w2, TRUE, FALSE, now)

\* the number of workers ManageDR.stop finds with a thread
Stopped == Cardinality({dr \in DRs : created /\ wthread[dr]})

RECURSIVE Times(_, _, _)
Times(n, x, k) == IF k = 0 THEN x ELSE Times(n, StopRelease(x), k - 1)

RECURSIVE CheckAll(_, _)
CheckAll(rows, drs) ==
    IF drs = {} THEN rows
    ELSE LET dr == CHOOSE d \in drs : TRUE
         IN CheckAll(CheckIntegrity(rows, dr), drs \ {dr})

\* __iniProcess lines 102-126: the monitor and the workers are stopped or created, then
\* started
IniThreads ==
    /\ WorkersAsleep
    /\ created' = TRUE
    /\ globalInhibit' = [dr \in DRs |-> FALSE]
    /\ monThread' = TRUE
    /\ busy' = [dr \in DRs |-> TRUE]
    /\ callbacks' = [dr \in DRs |-> StopCalls(monThread, busy[dr])
                                       \o StartCalls(StopBusy(monThread, busy[dr]))]
    /\ wthread' = [dr \in DRs |-> TRUE]
    /\ active' = [dr \in DRs |-> IniWorker(dr).active]
    /\ results' = [dr \in DRs |-> IniWorker(dr).results]
    /\ inhibit' = [dr \in DRs |-> IniWorker(dr).inhibit]
    /\ rcl' = Times(0, rcl, Stopped)
    /\ holder' = IF created THEN {dr \in holder : ~wthread[dr]} ELSE holder
    /\ fifo' = IF created THEN fifo
               ELSE [dr \in DRs |-> RestorePending(CheckIntegrity(store, dr), dr)]
    /\ restored' = IF created THEN restored
                   ELSE [dr \in DRs |-> RestorePending(CheckIntegrity(store, dr), dr)]
    /\ store' = IF created THEN store ELSE CheckAll(store, DRs)
    /\ contended' = IF created THEN contended
                    ELSE [dr \in DRs |->
                             contended[dr] \/ RestorePending(CheckIntegrity(store, dr), dr) # <<>>]
    /\ tLastPurge' = [dr \in DRs |-> FirstPurge(now)]
    /\ UNCHANGED <<spawned, nCalls, nCancel, completedLog, errorLog, txFailed, clockVars, mcsVars,
                   purging, cmdQueue, parsed,
                   rmLog, pc, ready,
                   orphans, sn, putLog, dispatchLog, requeueLog, lastErr,
                   canceledActive, canceledPending,
                   crashStore, nCrash, cacheVars, queueVars, resuming>>

\* __iniProcess lines 102-137, with an error thread to start at line 127
IniRun ==
    /\ InSeq(activeProcess, "INI")
    /\ IniThreads
    /\ activeProcess' = RemoveFirst(activeProcess, "INI")
    /\ status' = "NORMAL"
    /\ lastLog' = "INI: finished"
    /\ UNCHANGED iniDied

\* __shtProcess lines 167-187
ShtRun ==
    /\ InSeq(activeProcess, "SHT")
    /\ WorkersAsleep
    /\ activeProcess' = RemoveFirst(activeProcess, "SHT")
    /\ status' = "SHUTDWN"
    /\ monThread' = FALSE
    /\ busy' = [dr \in DRs |-> StopBusy(monThread, busy[dr])]
    /\ callbacks' = IF monThread THEN [dr \in DRs |-> StopCalls(monThread, busy[dr])]
                    ELSE callbacks
    /\ globalInhibit' = IF created THEN [dr \in DRs |-> TRUE] ELSE globalInhibit
    /\ wthread' = [dr \in DRs |-> FALSE]
    /\ active' = IF created THEN [dr \in DRs |-> WPause(WorkerOf(dr)).active] ELSE active
    /\ results' = IF created THEN [dr \in DRs |-> WPause(WorkerOf(dr)).results] ELSE results
    /\ inhibit' = IF created THEN [dr \in DRs |-> TRUE] ELSE inhibit
    /\ rcl' = Times(0, rcl, Stopped)
    /\ holder' = IF created THEN {dr \in holder : ~wthread[dr]} ELSE holder
    /\ lastLog' = "System has been shut down"
    /\ UNCHANGED <<spawned, created, nCalls, nCancel, diskVars, clockVars, mcsVars, purgeVars,
                   cmdQueue, parsed, fifo, pc, ready,
                   orphans, sn, putLog, dispatchLog, requeueLog, contended, lastErr,
                   canceledActive, canceledPending,
                   crashVars, auxVars>>

\* commandExitCodes: the texts of the codes a submission can be rejected with
ExitCodes == [notNormal |-> "0x04", notReady |-> "0x02"]

\* a submission is taken whenever the supervisor is running (what C18 excludes)
OperationalAlways(st) == st \in {"NORMAL", "BOOTING", "SHUTDWN"}

\* addCopyCommand line 191 / addDeleteCommand line 295: the operational status check
Operational(st) == st = "NORMAL"

\* SmartCopy.addCopyCommand and SmartCopy.addDeleteCommand: the status checks, then
\* ManageDR.addCopyCommand / ManageDR.addDeleteCommand on the worker of dr
Submit(cmd, dr, hostpath, dest, destpath) ==
    /\ IF ~Operational(status)
       THEN /\ lastLog' = cmd \o ": " \o ExitCodes.notNormal
            /\ UNCHANGED <<fifo, store, results, putLog, contended, sn>>
       ELSE IF ~created
       THEN /\ lastLog' = cmd \o ": " \o ExitCodes.notReady
            /\ UNCHANGED <<fifo, store, results, putLog, contended, sn>>
       ELSE /\ sn <= MaxId
            /\ LET task == Task(dr, hostpath, dest, destpath, sn, 0, 0)
               IN /\ fifo' = [fifo EXCEPT ![dr] = FifoPut(@, task)]
                  /\ store' = StorePut(store, dr, task)
                  /\ results' = [results EXCEPT ![dr][sn] = "queued"]
                  /\ putLog' = [putLog EXCEPT ![dr] = Append(@, sn)]
                  /\ contended' = IF task.host # task.dest
                                  THEN [contended EXCEPT ![dr] = TRUE] ELSE contended
            /\ sn' = sn + 1
            /\ UNCHANGED lastLog
    /\ UNCHANGED <<status, activeProcess, spawned, created, globalInhibit, nCalls, nCancel,
                   monVars, completedLog, errorLog, txFailed, crashVars, auxVars, clockVars,
                   purgeVars,
                   wthread, inhibit, active, pc, ready, orphans, rcl,
                   holder, dispatchLog, requeueLog, lastErr,
                   canceledActive, canceledPending>>

\* SmartCopy.addCopyCommand(dr, host, hostpath, dest, destpath), host = dr
SCP(dr, hostpath, dest, destpath) ==
    Submit("SCP", dr, hostpath, dest, destpath) /\ UNCHANGED mcsVars

\* SmartCopy.addDeleteCommand(dr, host, hostpath, now), host = dr
SRM(dr, hostpath, nw) ==
    /\ Submit("SRM", dr, hostpath, dr,
              IF nw THEN DELETE_MARKER_NOW ELSE DELETE_MARKER_QUEUE)
    /\ UNCHANGED mcsVars

\* SmartCopy.pauseCopyQueue(dr)
PAU(dr) ==
    /\ status = "NORMAL" /\ created
    /\ active' = [active EXCEPT ![dr] = WPause(WorkerOf(dr)).active]
    /\ results' = [results EXCEPT ![dr] = WPause(WorkerOf(dr)).results]
    /\ inhibit' = [inhibit EXCEPT ![dr] = WPause(WorkerOf(dr)).inhibit]
    /\ globalInhibit' = [globalInhibit EXCEPT ![dr] = TRUE]
    /\ UNCHANGED <<status, lastLog, activeProcess, spawned, created, nCalls, nCancel, monVars,
                   diskVars, histVars, crashVars, auxVars, clockVars, mcsVars,
                   purgeVars, wthread, fifo, pc, ready,
                   orphans, rcl, sn>>

\* SmartCopy.resumeCopyQueue(dr)
RES(dr) ==
    /\ status = "NORMAL" /\ created
    /\ active' = [active EXCEPT ![dr] = ResumeQueue(WorkerOf(dr), busy[dr], now).active]
    /\ results' = [results EXCEPT ![dr] = ResumeQueue(WorkerOf(dr), busy[dr], now).results]
    /\ inhibit' = [inhibit EXCEPT ![dr] = ResumeQueue(WorkerOf(dr), busy[dr], now).inhibit]
    /\ globalInhibit' = [globalInhibit EXCEPT ![dr] = FALSE]
    /\ UNCHANGED <<status, lastLog, activeProcess, spawned, created, nCalls, nCancel, monVars,
                   diskVars, histVars, crashVars, auxVars, clockVars, mcsVars,
                   purgeVars, wthread, fifo, pc, ready,
                   orphans, rcl, sn>>

\* SmartCopy.cancelCopyCommand(id): the first worker asked answers True
SCN(id) ==
    /\ status = "NORMAL" /\ created
    /\ nCancel < MaxCancel
    /\ nCancel' = nCancel + 1
    /\ active' = [active EXCEPT ![FirstDR] = WCancel(WorkerOf(FirstDR), id).active]
    /\ results' = [results EXCEPT ![FirstDR] = WCancel(WorkerOf(FirstDR), id).results]
    /\ contended' = [contended EXCEPT ![FirstDR] = TRUE]
    /\ canceledActive' = IF \E dr \in DRs : active[dr] # None /\ active[dr][1].id = id
                         THEN canceledActive \cup {id} ELSE canceledActive
    /\ canceledPending' =
          IF /\ \E dr \in DRs : \E i \in 1..Len(fifo[dr]) : fifo[dr][i].id = id
             /\ \A dr \in DRs : \A i \in 1..Len(dispatchLog[dr]) : dispatchLog[dr][i] # id
          THEN canceledPending \cup {id} ELSE canceledPending
    /\ UNCHANGED <<status, lastLog, activeProcess, spawned, created, globalInhibit, nCalls,
                   monVars,
                   diskVars, crashVars, auxVars, clockVars, mcsVars,
                   purgeVars, wthread, inhibit, fifo, pc, ready,
                   orphans, rcl, sn, holder, putLog, dispatchLog, requeueLog, lastErr>>

\* ------------------------------------------------------------ MCSCommunicate
\* processCommand lines 346-348: all but the last SlotsKept slot times are deleted
Prune(cs) ==
    LET newer(e) == {i \in 1..Len(cs) : cs[i].slot > e.slot}
        slotsAfter(e) == Cardinality({cs[i].slot : i \in newer(e)})
    IN SelectSeq(cs, LAMBDA e : slotsAfter(e) < SlotsKept)

\* the exit code processCommand records for a submission
SubmitCode == IF ~Operational(status) THEN ExitCodes.notNormal
              ELSE IF ~created THEN ExitCodes.notReady
              ELSE "0x00"

\* MCSCommunicate.processCommand on an SCP or SRM packet carrying the given reference
ProcessCommand(command, reference, dr, hostpath, dest, destpath) ==
    /\ Len(commandStatus) < MaxPackets
    /\ Submit(command, dr, hostpath, dest, destpath)
    /\ commandStatus' = Prune(Append(commandStatus,
                                      [slot |-> now, command |-> command,
                                       reference |-> reference, exitCode |-> SubmitCode]))
    /\ UNCHANGED refVars

\* ------------------------------------------------------------ ReferenceServer
\* _generator lines 362-364 and 392-394: the wrap
Wrapped(r) == IF r > RefMax THEN 1 ELSE r

\* the ids the bounds let the server work with: the first ones and the last ones
InReach(r) == r <= MaxIssued \/ r > RefMax - MaxIssued

\* ReferenceServer.start and _generator lines 357-364
RefStart ==
    /\ ~refThread
    /\ InReach(refFile)
    /\ refThread' = TRUE
    /\ ref' = IF refFile = 0 THEN 1 ELSE Wrapped(refFile + RefStep)
    /\ refPc' = "poll"
    /\ issuedBefore' = issuedBefore \cup issuedAfter
    /\ issuedAfter' = {}
    /\ unsent' = FALSE
    /\ UNCHANGED <<supVars, monVars, diskVars, histVars, crashVars, auxVars, clockVars,
                   purgeVars,
                   commandStatus, refFile,
                   wthread, inhibit, active, results, fifo, pc, ready, orphans, rcl, sn>>

\* every request consumes an id, answered or not (what C21 excludes)
AfterSendAlways(r, sent) == Wrapped(r + 1)

\* _generator lines 385-394: ref after socket.send, which raised ZMQError unless sent
AfterSend(r, sent) == IF sent THEN Wrapped(r + 1) ELSE r

\* _generator lines 384-394: a next_ref request is received and answered
RefNext(sent) ==
    /\ refThread /\ refPc = "poll"
    /\ InReach(ref)
    /\ issuedAfter' = IF sent THEN issuedAfter \cup {ref} ELSE issuedAfter
    /\ unsent' = (unsent \/ ~sent)
    /\ ref' = AfterSend(ref, sent)
    /\ refPc' = IF sent /\ AfterSend(ref, sent) % RefStep = 0 THEN "save" ELSE "poll"
    /\ UNCHANGED <<supVars, monVars, diskVars, histVars, crashVars, auxVars, clockVars,
                   purgeVars,
                   commandStatus, refThread, refFile, issuedBefore,
                   wthread, inhibit, active, results, fifo, pc, ready, orphans, rcl, sn>>

\* _generator lines 396-399: the checkpoint
RefSave ==
    /\ refThread /\ refPc = "save"
    /\ refFile' = ref
    /\ refPc' = "poll"
    /\ UNCHANGED <<supVars, monVars, diskVars, histVars, crashVars, auxVars, clockVars,
                   purgeVars,
                   commandStatus, refThread, ref, issuedBefore, issuedAfter, unsent,
                   wthread, inhibit, active, results, fifo, pc, ready, orphans, rcl, sn>>

\* ReferenceServer.stop and _generator lines 401-406: the clean shutdown
RefStop ==
    /\ refThread /\ refPc = "poll"
    /\ refFile' = ref
    /\ refThread' = FALSE
    /\ ref' = 0
    /\ UNCHANGED <<supVars, monVars, diskVars, histVars, crashVars, auxVars, clockVars,
                   purgeVars,
                   commandStatus, refPc, issuedBefore, issuedAfter, unsent,
                   wthread, inhibit, active, results, fifo, pc, ready, orphans, rcl, sn>>

\* ------------------------------------------------------------ MonitorStation
\* pollStation: the log shows a new state for dr, the callback runs
MonitorEvent(dr) ==
    /\ monThread
    /\ busy' = [busy EXCEPT ![dr] = ~busy[dr]]
    /\ callbacks' = [callbacks EXCEPT ![dr] = <<Invocation(busy[dr], ~busy[dr])>>]
    /\ LET w == IF created
                THEN StateChange(WorkerOf(dr), ~busy[dr], globalInhibit[dr], now)
                ELSE WorkerOf(dr)
       IN /\ active' = [active EXCEPT ![dr] = w.active]
          /\ results' = [results EXCEPT ![dr] = w.results]
          /\ inhibit' = [inhibit EXCEPT ![dr] = w.inhibit]
    /\ UNCHANGED <<supVars, monThread, diskVars, histVars, crashVars, auxVars, clockVars,
                   mcsVars, purgeVars,
                   cmdQueue, parsed, wthread, fifo, pc, ready, orphans, rcl, sn>>

\* ------------------------------------------------------------ environment
\* time passes
Tick ==
    /\ nTicks < MaxTicks
    /\ nTicks' = nTicks + 1
    /\ now' = now + TickSeconds
    /\ UNCHANGED <<supVars, monVars, diskVars, histVars, crashVars, auxVars, purgeVars, mcsVars,
                   wthread, inhibit, active, results, fifo, pc, ready, orphans, rcl, sn>>

\* a day passes
Day ==
    /\ nTicks < MaxTicks
    /\ nTicks' = nTicks + 1
    /\ now' = now + DaySeconds
    /\ UNCHANGED <<supVars, monVars, diskVars, histVars, crashVars, auxVars, purgeVars, mcsVars,
                   wthread, inhibit, active, results, fifo, pc, ready, orphans, rcl, sn>>

NoQueue == [dr \in DRs |-> <<>>]

\* the process dies and is started again: memory is lost, the files stay
Crash ==
    /\ nCrash < MaxCrash
    /\ nCrash' = nCrash + 1
    /\ crashStore' = store
    /\ status' = "SHUTDWN"
    /\ lastLog' = Welcome
    /\ activeProcess' = <<>>
    /\ spawned' = <<>>
    /\ created' = FALSE
    /\ globalInhibit' = [dr \in DRs |-> TRUE]
    /\ monThread' = FALSE
    /\ busy' = [dr \in DRs |-> TRUE]
    /\ callbacks' = NoQueue
    /\ cmdQueue' = <<>>
    /\ resultsDict' = <<>>
    /\ resuming' = {}
    /\ iniDied' = 0
    /\ outstanding' = [dr \in DRs |-> 0]
    /\ parsed' = [calls |-> 0, lines |-> <<>>]
    /\ wthread' = [dr \in DRs |-> FALSE]
    /\ inhibit' = [dr \in DRs |-> TRUE]
    /\ active' = [dr \in DRs |-> None]
    /\ results' = [dr \in DRs |-> [id \in Ids |-> ""]]
    /\ fifo' = NoQueue
    /\ restored' = NoQueue
    /\ pc' = [dr \in DRs |-> "top"]
    /\ ready' = [dr \in DRs |-> FALSE]
    /\ orphans' = [dr \in DRs |-> [remote |-> 0, standalone |-> 0]]
    /\ rcl' = 1
    /\ sn' = 1
    /\ holder' = {}
    /\ putLog' = NoQueue
    /\ dispatchLog' = NoQueue
    /\ requeueLog' = NoQueue
    /\ contended' = [dr \in DRs |-> FALSE]
    /\ lastErr' = [dr \in DRs |-> ""]
    /\ canceledActive' = {}
    /\ canceledPending' = {}
    /\ purging' = [dr \in DRs |-> NoPurge]
    /\ commandStatus' = <<>>
    /\ refThread' = FALSE
    /\ ref' = 0
    /\ refPc' = "poll"
    /\ UNCHANGED <<diskVars, clockVars, refFile, issuedBefore, issuedAfter, unsent, tLastPurge,
                   rmLog, nCalls, nCancel>>

\* the memory of a process that has just started
InitMemory ==
    /\ status = "SHUTDWN"
    /\ lastLog = Welcome
    /\ activeProcess = <<>>
    /\ spawned = <<>>
    /\ created = FALSE
    /\ globalInhibit = [dr \in DRs |-> TRUE]
    /\ monThread = FALSE
    /\ busy = [dr \in DRs |-> TRUE]
    /\ wthread = [dr \in DRs |-> FALSE]
    /\ inhibit = [dr \in DRs |-> TRUE]
    /\ active = [dr \in DRs |-> None]
    /\ results = [dr \in DRs |-> [id \in Ids |-> ""]]
    /\ fifo = NoQueue
    /\ pc = [dr \in DRs |-> "top"]
    /\ ready = [dr \in DRs |-> FALSE]
    /\ orphans = [dr \in DRs |-> [remote |-> 0, standalone |-> 0]]
    /\ completedLog = NoQueue
    /\ errorLog = NoQueue
    /\ rcl = 1
    /\ sn = 1
    /\ now = StartTime
    /\ holder = {}
    /\ putLog = NoQueue
    /\ dispatchLog = NoQueue
    /\ requeueLog = NoQueue
    /\ contended = [dr \in DRs |-> FALSE]
    /\ lastErr = [dr \in DRs |-> ""]
    /\ canceledActive = {}
    /\ canceledPending = {}
    /\ restored = NoQueue
    /\ tLastPurge = [dr \in DRs |-> 0]
    /\ purging = [dr \in DRs |-> NoPurge]
    /\ rmLog = NoQueue
    /\ commandStatus = <<>>
    /\ refThread = FALSE
    /\ ref = 0
    /\ refPc = "poll"
    /\ issuedBefore = {}
    /\ issuedAfter = {}
    /\ unsent = FALSE
    /\ txFailed = {}
    /\ callbacks = NoQueue
    /\ cmdQueue = <<>>
    /\ resultsDict = <<>>
    /\ resuming = {}
    /\ iniDied = 0
    /\ outstanding = [dr \in DRs |-> 0]
    /\ parsed = [calls |-> 0, lines |-> <<>>]
    /\ nCalls = 0 /\ nCancel = 0 /\ nTicks = 0 /\ nCrash = 0

CopyPath == "/data/DROS/Rec/f"
DestPath == "/archive"
SpecPath == "/data/DROS/Spec/f"
MissingPath == "/data/DROS/Rec/gone"

\* the files a recorder holds: 'du -b' succeeds on these paths only
Files == {CopyPath, SpecPath}

\* InterruptibleCopy.getFileExists
getFileExists(e) == e.hostpath \in Files

\* a first start: the queue file does not exist yet
Init ==
    /\ InitMemory
    /\ refFile = 0
    /\ store = <<>>
    /\ crashStore = <<>>

\* the rows an earlier process may have left for another recorder's queue
PriorStores ==
    {<<>>,
     <<Row("DR2", Task("DR2", CopyPath, "DR2", DestPath, 1, 0, 0), "processing"),
       Row("DR2", Task("DR2", CopyPath, "DR2", DestPath, 2, 0, 0), "pending")>>}

\* a start over the queue file of an earlier process
InitCrash ==
    /\ InitMemory
    /\ refFile = 0
    /\ store \in PriorStores
    /\ crashStore = store

Solo == {FirstDR}
OneStderr == {"error: rsync A"}

Next ==
    \/ \E name \in {"INI", "SHT"} : Call(name)
    \/ \E name \in {"INI", "SHT"} : Start(name)
    \/ IniRun
    \/ ShtRun
    \/ \E dr \in Solo : \E dest \in {dr, ArchiveHost} : SCP(dr, CopyPath, dest, DestPath)
    \/ \E dr \in Solo : PAU(dr)
    \/ \E dr \in Solo : RES(dr)
    \/ \E id \in Ids : SCN(id)
    \/ \E dr \in Solo : MonitorEvent(dr)
    \/ \E dr \in Solo : WorkerCheck(dr)
    \/ \E dr \in Solo : WorkerDrain(dr)
    \/ \E dr \in Solo : WorkerDispatch(dr)
    \/ \E dr \in Solo, rc \in {0, 1}, stderr \in OneStderr : ExecExit(dr, rc, stderr)
    \/ \E dr \in Solo : OrphanExit(dr)

Spec == Init /\ [][Next]_vars


\* a destination host that is neither the recorder nor the archive
OtherHost == "lwaucf1"

\* One recorder, copies of spectrometer and other files to every kind of destination
NextArchive ==
    \/ Call("INI")
    \/ Start("INI")
    \/ IniRun
    \/ \E dr \in Solo : \E hostpath \in {CopyPath, SpecPath} :
          \E dest \in {dr, ArchiveHost, OtherHost} : SCP(dr, hostpath, dest, DestPath)
    \/ \E dr \in Solo : MonitorEvent(dr)
    \/ \E dr \in Solo : WorkerCheck(dr)
    \/ \E dr \in Solo : WorkerDrain(dr)
    \/ \E dr \in Solo : WorkerDispatch(dr)
    \/ \E dr \in Solo, rc \in {0, 1}, stderr \in OneStderr : ExecExit(dr, rc, stderr)

SpecArchive == Init /\ [][NextArchive]_vars


\* Two recorders with local copies and the cancel command
NextCancel ==
    \/ Call("INI")
    \/ Start("INI")
    \/ IniRun
    \/ \E dr \in DRs : SCP(dr, CopyPath, dr, DestPath)
    \/ \E id \in Ids : SCN(id)
    \/ \E dr \in DRs : MonitorEvent(dr)
    \/ \E dr \in DRs : WorkerCheck(dr)
    \/ \E dr \in DRs : WorkerDrain(dr)
    \/ \E dr \in DRs : WorkerDispatch(dr)
    \/ \E dr \in DRs, stderr \in OneStderr : ExecExit(dr, 0, stderr)

SpecCancel == Init /\ [][NextCancel]_vars


\* Two recorders competing for the remote copy lock
\* one recorder whose transfers succeed, paused and resumed by command, over several
\* days: the completed log grows and is purged
NextPurge ==
    \/ Call("INI")
    \/ Start("INI")
    \/ IniRun
    \/ \E dr \in Solo, hostpath \in Files : SCP(dr, hostpath, dr, DestPath)
    \/ \E dr \in Solo : PAU(dr)
    \/ \E dr \in Solo : RES(dr)
    \/ \E dr \in Solo : MonitorEvent(dr)
    \/ Day
    \/ \E dr \in Solo : WorkerCheck(dr)
    \/ \E dr \in Solo : WorkerDrain(dr)
    \/ \E dr \in Solo : WorkerPurge(dr)
    \/ \E dr \in Solo, ok \in BOOLEAN : PurgeFile(dr, ok)
    \/ \E dr \in Solo : PurgeDone(dr)
    \/ \E dr \in Solo : WorkerDispatch(dr)
    \/ \E dr \in Solo, stderr \in OneStderr : ExecExit(dr, 0, stderr)

SpecPurge == Init /\ [][NextPurge]_vars

\* one recorder, copies and deletes submitted at any moment of the supervisor's life
NextSubmit ==
    \/ \E name \in {"INI", "SHT"} : Call(name)
    \/ \E name \in {"INI", "SHT"} : Start(name)
    \/ IniRun
    \/ ShtRun
    \/ \E dr \in Solo : SCP(dr, CopyPath, dr, DestPath)
    \/ \E dr \in Solo, nw \in BOOLEAN : SRM(dr, CopyPath, nw)
    \/ \E dr \in Solo : MonitorEvent(dr)
    \/ \E dr \in Solo : WorkerCheck(dr)
    \/ \E dr \in Solo : WorkerDrain(dr)
    \/ \E dr \in Solo : WorkerDispatch(dr)
    \/ \E dr \in Solo, stderr \in OneStderr : ExecExit(dr, 0, stderr)

SpecSubmit == Init /\ [][NextSubmit]_vars

\* one recorder, submissions arriving as command packets
NextRequest ==
    \/ Call("INI")
    \/ Start("INI")
    \/ IniRun
    \/ \E dr \in Solo, reference \in 1..MaxReference :
          ProcessCommand("SCP", reference, dr, CopyPath, dr, DestPath)
    \/ \E dr \in Solo, reference \in 1..MaxReference :
          ProcessCommand("SRM", reference, dr, CopyPath, dr, DELETE_MARKER_QUEUE)
    \/ \E dr \in Solo : MonitorEvent(dr)
    \/ \E dr \in Solo : WorkerCheck(dr)
    \/ \E dr \in Solo : WorkerDrain(dr)
    \/ \E dr \in Solo : WorkerDispatch(dr)
    \/ \E dr \in Solo, stderr \in OneStderr : ExecExit(dr, 0, stderr)

SpecRequest == Init /\ [][NextRequest]_vars

\* the reference server alone: requests, clean restarts and crashes of the process
NextReference ==
    \/ RefStart
    \/ \E sent \in BOOLEAN : RefNext(sent)
    \/ RefSave
    \/ RefStop
    \/ Crash

SpecReference == Init /\ [][NextReference]_vars

\* the checkpoints an earlier process may have left close to the largest id
NearWrap == {RefMax - RefStep - 3, RefMax - 5}

\* a start over a checkpoint file close to the wrap
InitWrap ==
    /\ InitMemory
    /\ refFile \in NearWrap
    /\ store = <<>>
    /\ crashStore = <<>>

SpecWrap == InitWrap /\ [][NextReference]_vars

NextLock ==
    \/ \E name \in {"INI", "SHT"} : Call(name)
    \/ \E name \in {"INI", "SHT"} : Start(name)
    \/ IniRun
    \/ ShtRun
    \/ \E dr \in DRs : SCP(dr, CopyPath, ArchiveHost, DestPath)
    \/ \E dr \in DRs : MonitorEvent(dr)
    \/ \E dr \in DRs : WorkerCheck(dr)
    \/ \E dr \in DRs : WorkerDrain(dr)
    \/ \E dr \in DRs : WorkerDispatch(dr)
    \/ \E dr \in DRs, stderr \in OneStderr : ExecExit(dr, 0, stderr)

SpecLock == Init /\ [][NextLock]_vars

\* One recorder, a child that always fails, and the clock
NextRetry ==
    \/ Call("INI")
    \/ Start("INI")
    \/ IniRun
    \/ \E dr \in Solo, hostpath \in {CopyPath, MissingPath} :
          sn = 1 /\ SCP(dr, hostpath, dr, DestPath)
    \/ \E dr \in Solo : MonitorEvent(dr)
    \/ \E dr \in Solo : WorkerCheck(dr)
    \/ \E dr \in Solo : WorkerDrain(dr)
    \/ \E dr \in Solo : WorkerDispatch(dr)
    \/ \E dr \in Solo, stderr \in Stderrs : ExecExit(dr, 1, stderr)
    \/ Tick

SpecRetry == Init /\ [][NextRetry]_vars

\* One recorder and process restarts
NextCrash ==
    \/ Call("INI")
    \/ Start("INI")
    \/ IniRun
    \/ \E dr \in Solo : SCP(dr, CopyPath, dr, DestPath)
    \/ \E dr \in Solo : MonitorEvent(dr)
    \/ \E dr \in Solo : WorkerCheck(dr)
    \/ \E dr \in Solo : WorkerDrain(dr)
    \/ \E dr \in Solo : WorkerDispatch(dr)
    \/ \E dr \in Solo, rc \in {0, 1}, stderr \in OneStderr : ExecExit(dr, rc, stderr)
    \/ Crash

SpecCrash == InitCrash /\ [][NextCrash]_vars


\* ------------------------------------------------------------ properties
NonComplete(dr) == active[dr] # None /\ ~isComplete(active[dr][1])

CrossHostActive == {dr \in DRs : NonComplete(dr) /\ isRemote(active[dr][1])}

RECURSIVE SumRemoteOrphans(_)
SumRemoteOrphans(drs) ==
    IF drs = {} THEN 0
    ELSE LET dr == CHOOSE d \in drs : TRUE
         IN orphans[dr].remote + SumRemoteOrphans(drs \ {dr})

ExecutorsOf(dr) ==
    (IF NonComplete(dr) THEN 1 ELSE 0) + orphans[dr].remote + orphans[dr].standalone

PausedRemote(dr) ==
    active[dr] # None /\ isRemote(active[dr][1]) /\ active[dr][1].status = "paused"

\* C1: in every reachable state at most one cross-host executor, over all
\* recorders, is non-complete.
C1_AtMostOneCrossHost ==
    Cardinality(CrossHostActive) + SumRemoteOrphans(DRs) <= 1

\* C2: in every reachable state a recorder has at most one non-complete executor.
C2_AtMostOnePerRecorder == \A dr \in DRs : ExecutorsOf(dr) <= 1

C4_CountAtMostOne == rcl <= 1

\* C5: no executor is constructed for a recorder while its busy flag or its
\* globalInhibit flag is true.
C5_NoDispatchWhileGated ==
    [][\A dr \in DRs :
        Len(dispatchLog'[dr]) > Len(dispatchLog[dr])
            => ~busy[dr] /\ ~globalInhibit[dr]]_vars


\* a step of the activity callback for dr: busy[dr] toggles outside INI, SHT and restart
CallbackStep(dr) ==
    /\ busy'[dr] # busy[dr]
    /\ activeProcess' = activeProcess
    /\ nCrash' = nCrash

TaskIds(q) == [i \in 1..Len(q) |-> q[i].id]

RECURSIVE LiveTasks(_, _)
LiveTasks(rows, dr) ==
    IF rows = <<>> THEN <<>>
    ELSE IF Head(rows).queue_name = dr /\ Head(rows).status \in {"pending", "processing"}
         THEN <<Head(rows).task>> \o LiveTasks(Tail(rows), dr)
         ELSE LiveTasks(Tail(rows), dr)

\* the queues have been opened over what the crashed process left
Restarted == created /\ nCrash > 0

\* C8: the FIFO rebuilt at a restart holds the jobs whose rows were pending or
\* processing at the crash, in the order the rows were inserted.
C8_RestoredInInsertionOrder ==
    \A dr \in DRs : Restarted => restored[dr] = LiveTasks(crashStore, dr)

Count(q, x) == Cardinality({i \in 1..Len(q) : q[i] = x})

SameJobs(q1, q2) ==
    /\ Len(q1) = Len(q2)
    /\ \A i \in 1..Len(q1) : Count(q1, q1[i]) = Count(q2, q1[i])

NumProcessing(rows, dr) == Len(SelectRows(rows, dr, "processing"))

\* the queues are opened over the file an earlier process left
RestartStep == ~created /\ created'

RECURSIVE RealRequeues(_)
RealRequeues(log) ==
    IF log = <<>> THEN <<>>
    ELSE IF Head(log).status # TooSoon
         THEN <<Head(log)>> \o RealRequeues(Tail(log))
         ELSE RealRequeues(Tail(log))

C11_MissingSourceNotRequeued ==
    \A dr \in DRs : \A i \in 1..Len(fifo[dr]) :
        fifo[dr][i].tries > 0 => getFileExists(fifo[dr][i])

\* the worker of dr ends a dispatch step
DispatchStep(dr) == pc[dr] = "dispatch" /\ pc'[dr] = "top" /\ nCrash' = nCrash

\* the task at the head of dr's queue is a live retry tried less than wait_retry ago
HeadCooling(dr) ==
    /\ fifo[dr] # <<>>
    /\ results[dr][Head(fifo[dr]).id] \notin {"", "canceled"}
    /\ Head(fifo[dr]).tries > 0
    /\ now - Head(fifo[dr]).last_try < WaitRetry * HourSeconds

DrainStep(dr) == pc[dr] = "drain" /\ pc'[dr] # "drain" /\ nCrash' = nCrash

\* C13: when the worker handles a successful transfer, the source path is appended
\* to the completed log iff the path is not a DROS/Spec path or the destination is
\* the (remote) archive host; a successful DROS/Spec transfer to any other
\* destination, and every transfer that did not succeed, leaves the completed log
\* as it is.
C13_ArchivalException ==
    [][\A dr \in DRs : DrainStep(dr) =>
          LET e == active[dr][1]
              recorded == /\ e.status = "complete"
                          /\ \/ e.hostpath # SpecPath
                             \/ e.host # e.dest /\ e.dest = ArchiveHost
          IN completedLog'[dr] = IF recorded THEN Append(completedLog[dr], e.hostpath)
                                 ELSE completedLog[dr]]_vars

\* C13 witness: two transfers have succeeded and only one, a DROS/Spec file, is in
\* the completed log: the other was a DROS/Spec file sent elsewhere
C13_Witness ==
    \E dr \in DRs :
        /\ \A id \in Ids : results[dr][id] = "complete"
        /\ completedLog[dr] = <<SpecPath>>
        /\ active[dr] = None

\* C14: a job that was canceled while it was the active job leaves no completed
\* record, no failed record and no re-queued task: its result never reads
\* 'complete', the error log has no entry for it and no queue holds it again.
C14_CanceledLeavesNoRecord ==
    \A dr \in DRs : \A id \in canceledActive :
        /\ results[dr][id] # "complete"
        /\ \A i \in 1..Len(errorLog[dr]) : errorLog[dr][i].id # id
        /\ \A i \in 1..Len(fifo[dr]) : fifo[dr][i].id # id

\* C15: a job canceled while it waited in a queue, never started before, is never
\* started afterwards: no worker constructs an executor for it.
C15_CanceledPendingNeverStarted ==
    \A dr \in DRs : \A i \in 1..Len(dispatchLog[dr]) :
        dispatchLog[dr][i] \notin canceledPending

\* the steps of a purge: the size check that ends it, one entry, the end
PurgeGateStep(dr) == pc[dr] = "dispatch" /\ PurgeDue(dr) /\ tLastPurge'[dr] # tLastPurge[dr]
PurgeFileStep(dr) == pc[dr] = "purge" /\ purging'[dr].todo # purging[dr].todo
PurgeEndStep(dr) == pc[dr] = "purge" /\ pc'[dr] = "dispatch"

\* C16: Purge gate.  While the sizes in the completed log sum to less than purge_size
\* the purge issues no delete command and leaves the log alone; once the threshold
\* is reached every entry of the log triggers exactly one delete command, and every
\* entry whose delete command failed is in the completed log again when the purge ends.
C16_PurgeGate ==
    [][\A dr \in DRs :
          /\ PurgeGateStep(dr)
                 => /\ totalSize(completedLog[dr]) < PurgeSize
                    /\ rmLog' = rmLog /\ completedLog' = completedLog
          /\ PurgeFileStep(dr)
                 => /\ Len(rmLog'[dr]) = Len(rmLog[dr]) + 1
                    /\ rmLog'[dr][Len(rmLog'[dr])].file = Head(purging[dr].todo)
          /\ PurgeEndStep(dr)
                 => \A i \in 1..Len(purging[dr].failed) :
                        InSeq(completedLog'[dr], purging[dr].failed[i])]_vars

\* C17: INI/SHT exclusion.  Whatever the interleaving of ini() and sht() calls, at most
\* one INI/SHT background process is running and activeProcess holds at most one entry.
C17_OneIniSht ==
    /\ Len(activeProcess) <= 1
    /\ Len(activeProcess) + Len(spawned) <= 1

\* the texts a rejected submission leaves in lastLog when the status is not NORMAL
NotNormalLogs == {"SCP: " \o ExitCodes.notNormal, "SRM: " \o ExitCodes.notNormal}

\* a step in which addCopyCommand or addDeleteCommand rejects a submission
RejectStep ==
    /\ lastLog' # lastLog
    /\ lastLog' \in NotNormalLogs \cup {"SCP: " \o ExitCodes.notReady,
                                         "SRM: " \o ExitCodes.notReady}

\* C18: a copy or delete submission arriving while the status is not NORMAL is
\* rejected with code 0x04 and leaves every recorder's queue, results cache and the
\* id generator unchanged: no step taken while the status is not NORMAL consumes an
\* id or records a submission, and a step that rejects a submission (it writes
\* lastLog) outside NORMAL writes code 0x04 and touches nothing else.
C18_RejectedOutsideNormal ==
    [][/\ status # "NORMAL" => sn' = sn /\ putLog' = putLog
       /\ (status # "NORMAL" /\ RejectStep)
             => /\ lastLog' \in NotNormalLogs
                /\ fifo' = fifo /\ results' = results /\ store' = store /\ sn' = sn]_vars

\* a delete was rejected while a second INI was booting over a queue that holds a job
C18_Witness ==
    /\ status = "BOOTING" /\ created
    /\ lastLog = "SRM: " \o ExitCodes.notNormal
    /\ sn = 2
    /\ \E dr \in Solo : Len(fifo[dr]) = 1 /\ results[dr][1] = "queued"

\* C19: Duplicate-reference suppression.  Of two consecutive requests that carry the
\* same reference id the handler executes one: the second is not executed as well.
C19_DuplicateNotExecuted ==
    \A i \in 1..(Len(commandStatus) - 1) :
        commandStatus[i].reference = commandStatus[i + 1].reference
            => ~(commandStatus[i].exitCode = "0x00" /\ commandStatus[i + 1].exitCode = "0x00")

\* C20: Reference ids do not collide across restarts.  Wherever the server crashed or
\* was shut down, no id sent since its latest start was sent before it (the counter
\* stays far below its wrap).
C20_NoCollisionAcrossRestarts ==
    (\A r \in issuedBefore \cup issuedAfter : r < RefMax)
        => issuedBefore \cap issuedAfter = {}

\* the id that follows r
Succ(r) == IF r = RefMax THEN 1 ELSE r + 1

\* C21: every id sent lies in 1..999999999; while the server runs, the id to send
\* changes only when an id is sent, and then to the next one (1 after 999999999);
\* a request whose reply could not be sent does not consume an id.
C21_IdsInRangeAndSuccessive ==
    [][/\ \A r \in issuedAfter' : r \in 1..RefMax
       /\ (refThread /\ refThread' /\ ref' # ref)
             => /\ issuedAfter' = issuedAfter \cup {ref}
                /\ ref' = Succ(ref)
       /\ (refThread /\ refThread' /\ issuedAfter' # issuedAfter)
             => issuedAfter' \ issuedAfter = {ref} /\ ref' = Succ(ref)]_vars

\* the largest id and the first one were sent in one run, in which a reply was lost
C21_Witness ==
    /\ refThread /\ unsent
    /\ {RefMax - 1, RefMax, 1, 2} \subseteq issuedAfter
    /\ ref = 3

\* __iniProcess ends
IniEndStep == status = "BOOTING" /\ status' = "NORMAL"

\* C22: after the INI process completes every recorder's globalInhibit is true and
\* its worker is inhibited; globalInhibit is cleared only by a resume command, which
\* is accepted in status NORMAL only.
C22_InhibitedUntilResume ==
    [][/\ IniEndStep => \A dr \in DRs : globalInhibit'[dr] /\ inhibit'[dr]
       /\ \A dr \in DRs : (globalInhibit[dr] /\ ~globalInhibit'[dr])
                               => status = "NORMAL" /\ status' = "NORMAL"]_vars

\* __shtProcess ends
ShtEndStep ==
    /\ InSeq(activeProcess, "SHT")
    /\ Len(activeProcess') < Len(activeProcess)
    /\ status' = "SHUTDWN"

\* executors of dr whose child is running, referred to by the worker or not
ChildrenRunning(a, o, dr) ==
    (IF a[dr] # None /\ a[dr][1].thread = "alive" THEN 1 ELSE 0)
    + o[dr].remote + o[dr].standalone

\* C23: when the SHT process completes every worker is paused (inhibit true, no
\* executor child running), the monitor is stopped, status is SHUTDWN and the
\* last message is 'System has been shut down'.
C23_ShutdownQuiescent ==
    [][ShtEndStep =>
          /\ \A dr \in DRs : inhibit'[dr] /\ ChildrenRunning(active', orphans', dr) = 0
          /\ ~monThread'
          /\ lastLog' = "System has been shut down"]_vars

\* the ids of the jobs that are queued for, or active on, some recorder, and of the
\* pending and processing rows of the store
LiveIds ==
    UNION {{fifo[dr][i].id : i \in 1..Len(fifo[dr])} : dr \in DRs}
    \cup {active[dr][1].id : dr \in {d \in DRs : active[d] # None}}
    \cup {store[i].task.id :
             i \in {j \in 1..Len(store) : store[j].status \in {"pending", "processing"}}}

\* a submission is accepted: sng.get() hands out sn
AcceptStep == sn' = sn + 1

\* C24: the id given to a newly accepted job differs from the id of every job that is
\* pending, processing or active in any recorder's queue at that moment, jobs
\* restored from the store after a restart included.
C24_FreshId ==
    [][AcceptStep => sn \notin LiveIds]_vars

\* the worker of dr reaps a same-host copy whose child exited with code 0
ReapsSameHostSuccess(dr) ==
    /\ DrainStep(dr)
    /\ active[dr][1].status = "complete"
    /\ active[dr][1].host = active[dr][1].dest

\* what the reap of executor e leaves apart from the completed log: the result
\* 'complete', no active job, no pending or processing row and no failed record
ReapedClean(dr, e) ==
    /\ results'[dr][e.id] = "complete"
    /\ active'[dr] = None
    /\ \A i \in 1..Len(store') :
          store'[i].queue_name = dr => store'[i].task.id # e.id
    /\ \A i \in 1..Len(errorLog'[dr]) : errorLog'[dr][i].id # e.id

NextSignal ==
    \/ Call("INI")
    \/ Start("INI")
    \/ IniRun
    \/ \E dr \in Solo : SCP(dr, CopyPath, dr, DestPath)
    \/ \E dr \in Solo : PAU(dr)
    \/ \E dr \in Solo : RES(dr)
    \/ \E id \in Ids : SCN(id)
    \/ \E dr \in Solo : MonitorEvent(dr)
    \/ \E dr \in Solo : WorkerCheck(dr)
    \/ \E dr \in Solo : WorkerDrain(dr)
    \/ \E dr \in Solo : WorkerDispatch(dr)
    \/ \E dr \in Solo, rc \in {-1, 0, 1}, stderr \in OneStderr : ExecExit(dr, rc, stderr)

SpecSignal == Init /\ [][NextSignal]_vars

\* ManageDR.pause calls pause() on the active executor of dr
PauseCall(dr) ==
    /\ active[dr] # None /\ active'[dr] # None /\ pc' = pc
    /\ activeProcess' = activeProcess
    /\ inhibit'[dr] /\ results'[dr][active[dr][1].id] = "paused"
    /\ ~(active[dr][1].thread = "alive" /\ active'[dr][1].thread = "dead")

\* ManageDR.resume calls resume() on the active executor of dr
ResumeCall(dr) ==
    /\ active[dr] # None /\ active'[dr] # None /\ pc' = pc
    /\ activeProcess' = activeProcess
    /\ ~inhibit'[dr] /\ results'[dr][active[dr][1].id] = "active/resumed"

\* ManageDR.cancelCopyCommand calls cancel() on the active executor of dr
CancelCall(dr) ==
    /\ active[dr] # None /\ active'[dr] # None
    /\ nCancel' = nCancel + 1 /\ active[dr][1].id \in canceledActive' \ canceledActive

\* C26: pause() on an active executor ends the child and leaves 'paused'; resume()
\* on a paused executor starts the same command again and leaves 'active', whether
\* 'paused' came from pause() or from a negative exit code; cancel() leaves
\* 'canceled'.
C26_ExecutorTransitions ==
    [][\A dr \in DRs :
          /\ (PauseCall(dr) /\ active[dr][1].status = "active") =>
                 active'[dr][1].status = "paused" /\ ~isRunning(active'[dr][1])
          /\ (ResumeCall(dr) /\ active[dr][1].status = "paused") =>
                 /\ active'[dr][1].status = "active" /\ isRunning(active'[dr][1])
                 /\ getTaskSpecification(active'[dr][1]) = getTaskSpecification(active[dr][1])
          /\ CancelCall(dr) => active'[dr][1].status = "canceled"]_vars

\* the worker of dr takes a cross-host job from the queue and rcl.acquire(False)
\* returns False
LockRefused(dr) ==
    /\ pc[dr] = "dispatch" /\ pc'[dr] = "top"
    /\ fifo[dr] # <<>>
    /\ FifoHead(fifo[dr]).host # FifoHead(fifo[dr]).dest
    /\ results[dr][FifoHead(fifo[dr]).id] \notin {"", "canceled"}
    /\ ~CoolingDown(FifoHead(fifo[dr]), now)
    /\ rcl = 0

\* each recorder got exactly one job, a cross-host one, neither is finished and no
\* worker was paused over its job
OneCrossHostEach ==
    \A dr \in DRs :
        /\ Len(putLog[dr]) = 1
        /\ results[dr][putLog[dr][1]] \in {"queued", "active/started"}

\* C27: when a cross-host job is taken from the queue and the remote copy lock
\* cannot be acquired, no executor is constructed, the job goes to the tail of the
\* same queue with the same id, tries and last_try and its result stays 'queued';
\* with one cross-host job on each of two recorders the two are never both
\* 'active/started': while one is, the other stays 'queued'.
C27_LockRefusedRequeues ==
    [][(\A dr \in DRs : LockRefused(dr) =>
           /\ active'[dr] = None /\ dispatchLog'[dr] = dispatchLog[dr]
           /\ fifo'[dr] = Append(FifoRest(fifo[dr]), FifoHead(fifo[dr]))
           /\ results'[dr][FifoHead(fifo[dr]).id] = "queued")
       /\ (OneCrossHostEach' =>
             Cardinality({d \in DRs : results'[d][putLog'[d][1]] = "active/started"}) <= 1)]_vars

\* the tries values held in memory for command id on recorder dr: in the queue q
\* and in the active executor a
TriesOf(q, a, dr, id) ==
    {q[dr][i].tries : i \in {j \in 1..Len(q[dr]) : q[dr][j].id = id}}
        \cup (IF a[dr] # None /\ a[dr][1].id = id THEN {a[dr][1].tries} ELSE {})

\* the tries values the store holds for command id on recorder dr, which a restart
\* puts back into the queue
StoredTries(rows, dr, id) ==
    {rows[i].task.tries : i \in {j \in 1..Len(rows) :
                                   rows[j].queue_name = dr /\ rows[j].task.id = id}}

\* C28: for a given command id tries never decreases (dispatch, re-queue, retry,
\* restart: the job comes back from the store with no fewer tries than it had), and
\* a pause followed by a resume of the running executor leaves tries and last_try
\* unchanged.
C28_TriesMonotone ==
    [][\A dr \in DRs :
          /\ \A id \in Ids :
                IF nCrash' = nCrash
                THEN \A t \in TriesOf(fifo, active, dr, id) :
                        \A u \in TriesOf(fifo', active', dr, id) : u >= t
                ELSE \A t \in TriesOf(fifo, active, dr, id) :
                        \A u \in StoredTries(store, dr, id) : u >= t
          /\ (PauseCall(dr) \/ (ResumeCall(dr) /\ active[dr][1].status = "paused")) =>
                /\ active'[dr][1].tries = active[dr][1].tries
                /\ active'[dr][1].last_try = active[dr][1].last_try]_vars

\* SmartCopy.addCopyCommand when the INSERT inside DiskBackedQueue.put raises
\* sqlite3.Error: super().put has run, the transaction is rolled back, the
\* exception reaches ManageDR.addCopyCommand, which returns False
PutFails(dr, hostpath, dest, destpath) ==
    /\ Operational(status) /\ created
    /\ sn <= MaxId
    /\ LET task == Task(dr, hostpath, dest, destpath, sn, 0, 0)
       IN /\ fifo' = [fifo EXCEPT ![dr] = FifoPut(@, task)]
          /\ txFailed' = txFailed \cup {<<"put", dr, sn>>}
    /\ sn' = sn + 1
    /\ lastLog' = "SCP: " \o ExitCodes.notReady \o " - error queuing copy"
    /\ UNCHANGED <<status, activeProcess, spawned, created, globalInhibit, nCalls, nCancel,
                   monVars, store, completedLog, errorLog, histVars, crashVars, auxVars,
                   clockVars,
                   mcsVars, purgeVars,
                   wthread, inhibit, active, results, pc, ready, orphans, rcl>>

\* processQueue when the UPDATE inside DiskBackedQueue.get raises sqlite3.Error:
\* super().get has run, the transaction is rolled back, the exception ends the pass
GetFails(dr) ==
    /\ wthread[dr] /\ pc[dr] = "dispatch"
    /\ ~PurgeDue(dr)
    /\ fifo[dr] # <<>>
    /\ fifo' = [fifo EXCEPT ![dr] = FifoRest(@)]
    /\ txFailed' = txFailed \cup {<<"get", dr, FifoHead(fifo[dr]).id>>}
    /\ outstanding' = [outstanding EXCEPT ![dr] = @ + 1]
    /\ pc' = [pc EXCEPT ![dr] = "top"]
    /\ UNCHANGED <<supVars, monVars, store, completedLog, errorLog, histVars, crashVars,
                   cacheVars, callVars,
                   clockVars, mcsVars, purgeVars,
                   wthread, inhibit, active, results, ready, orphans, rcl, sn>>

\* One recorder whose store transactions may fail
NextStore ==
    \/ Call("INI")
    \/ Start("INI")
    \/ IniRun
    \/ \E dr \in Solo : SCP(dr, CopyPath, dr, DestPath)
    \/ \E dr \in Solo : PutFails(dr, CopyPath, dr, DestPath)
    \/ \E dr \in Solo : MonitorEvent(dr)
    \/ \E dr \in Solo : WorkerCheck(dr)
    \/ \E dr \in Solo : WorkerDrain(dr)
    \/ \E dr \in Solo : WorkerDispatch(dr)
    \/ \E dr \in Solo : GetFails(dr)
    \/ \E dr \in Solo, rc \in {0, 1}, stderr \in OneStderr : ExecExit(dr, rc, stderr)

SpecStore == Init /\ [][NextStore]_vars

\* the store holds a row of recorder dr for command id with status st
HasRow(rows, dr, id, st) ==
    \E i \in 1..Len(rows) :
        rows[i].queue_name = dr /\ rows[i].task.id = id /\ rows[i].status = st

\* C29: when the store transaction inside put or get fails it is rolled back and
\* the in-memory FIFO is not advanced: after a failed put the job is neither in the
\* FIFO nor in the store, after a failed get the job is still the head of the FIFO
\* and still pending in the store.
C29_FailedTransactionKeepsFifo ==
    [][\A dr \in DRs : \A id \in Ids :
          /\ (<<"put", dr, id>> \in txFailed' \ txFailed) =>
                /\ store' = store /\ fifo'[dr] = fifo[dr]
                /\ TriesOf(fifo', active', dr, id) = {}
          /\ (<<"get", dr, id>> \in txFailed' \ txFailed) =>
                /\ store' = store /\ fifo'[dr] = fifo[dr]
                /\ FifoHead(fifo'[dr]).id = id
                /\ HasRow(store', dr, id, "pending")]_vars

\* MonitorStation.start runs: the end of the INI process
MonitorStartStep == monThread' /\ Len(activeProcess') < Len(activeProcess)

\* MonitorStation.stop runs on a live monitor: INI or SHT, not a restart
MonitorStopStep ==
    monThread /\ Len(activeProcess') < Len(activeProcess) /\ nCrash' = nCrash

\* a step of the running monitor that is neither its start nor its stop
MonitorPolls == activeProcess' = activeProcess /\ nCrash' = nCrash

\* C30 as stated: the monitor calls processDRStateChange exactly once per change of
\* a recorder's busy flag and never when the flag does not change; on start every
\* recorder is busy.
C30_OncePerTransition ==
    [][\A dr \in DRs :
          /\ (busy'[dr] # busy[dr] /\ nCrash' = nCrash) =>
                \E i \in 1..Len(callbacks'[dr]) :
                    /\ callbacks'[dr][i] = Invocation(busy[dr], busy'[dr])
                    /\ \A j \in 1..Len(callbacks'[dr]) :
                          callbacks'[dr][j] = callbacks'[dr][i] => j = i
          /\ callbacks'[dr] # callbacks[dr] =>
                \A i \in 1..Len(callbacks'[dr]) :
                    callbacks'[dr][i].before # callbacks'[dr][i].after
          /\ MonitorStartStep => busy'[dr]]_vars

\* C30 amended: while polling, the monitor calls back exactly once for a recorder
\* whose flag changed and not at all for one whose flag did not; start and stop set
\* every flag to busy and call back once for every recorder, whether or not its
\* flag changed (at start none changes); on start every recorder is busy.
C30_OncePerChangeWhilePolling ==
    [][\A dr \in DRs :
          /\ (MonitorPolls /\ busy'[dr] # busy[dr]) =>
                callbacks'[dr] = <<Invocation(busy[dr], busy'[dr])>>
          /\ (MonitorPolls /\ busy'[dr] = busy[dr]) => callbacks'[dr] = callbacks[dr]
          /\ MonitorStopStep =>
                /\ callbacks'[dr] # <<>>
                /\ callbacks'[dr][1] = Invocation(busy[dr], TRUE)
          /\ MonitorStartStep =>
                /\ busy'[dr]
                /\ Len(callbacks'[dr]) = IF monThread THEN 2 ELSE 1
                /\ callbacks'[dr][Len(callbacks'[dr])] = Invocation(TRUE, TRUE)]_vars

\* a second INI found the recorder idle: stop called back for the change to busy,
\* start called back again without a change
C30_Witness ==
    /\ status = "NORMAL" /\ monThread
    /\ callbacks[FirstDR] = <<Invocation(FALSE, TRUE), Invocation(TRUE, TRUE)>>

\* ------------------------------------------------------------ LimitedSizeDict
\* a dictionary is the sequence of its items [key, value] in insertion order
DictHas(d, key) == \E i \in 1..Len(d) : d[i].key = key

DictGet(d, key) == d[CHOOSE i \in 1..Len(d) : d[i].key = key].value

\* LimitedSizeDict._check_size_limit: popitem(last=False) while the size is above limit
CheckSizeLimit(d, limit) ==
    IF Len(d) > limit THEN SubSeq(d, Len(d) - limit + 1, Len(d)) ELSE d

\* a dictionary ordered by the latest write: an overwritten key moves to the end
DictSetMoveToEnd(d, key, value, limit) ==
    CheckSizeLimit(Append(SelectSeq(d, LAMBDA e : e.key # key), [key |-> key, value |-> value]),
                   limit)

\* LimitedSizeDict.__setitem__: OrderedDict keeps the place of a key it already has
DictSet(d, key, value, limit) ==
    CheckSizeLimit(IF DictHas(d, key)
                   THEN [i \in 1..Len(d) |->
                            IF d[i].key = key THEN [key |-> key, value |-> value] ELSE d[i]]
                   ELSE Append(d, [key |-> key, value |-> value]),
                   limit)

\* ------------------------------------------------------------ MonitorStation._parseLogData
CmdQueueLimit == 64   \* LimitedSizeDict(size_limit=64)
MaxBatch == 2         \* lines read by one pass of pollStation

\* a line of the event log after line.split(None, 9): numeric says whether fields 5
\* and 6 are integers, data is field 9 as a sequence of words and '|' marks
LogLine(numeric, rid, st, subsys, cmd, data) ==
    [numeric |-> numeric, rid |-> rid, status |-> st, subsys |-> subsys, cmd |-> cmd,
     data |-> data]

\* fields[9].rsplit('|', 1)[0]: what stands before the last '|'
Payload(data) ==
    IF \E i \in 1..Len(data) : data[i] = "|"
    THEN SubSeq(data, 1, (CHOOSE i \in 1..Len(data) :
                             data[i] = "|" /\ \A j \in (i + 1)..Len(data) : data[j] # "|") - 1)
    ELSE data

\* data[:n] == word for a word of n characters
StartsWith(data, word) == data # <<>> /\ data[1] = word

\* subsys[:2] == 'DR'; the subsystems of the inputs are recorders or have another prefix
IsRecorder(subsys) == subsys \in DRs

\* a SUMMARY report that marks the recorder idle when it reads NORMAL (what C31 excludes)
SummaryFlagBoth(b, data) == ~StartsWith(data, "NORMAL")

\* lines 189-191: a SUMMARY report marks the recorder busy unless it reads NORMAL
SummaryFlag(b, data) == IF ~StartsWith(data, "NORMAL") THEN TRUE ELSE b

\* the body of the loop of _parseLogData for one line; st = [busy, queue]
ParseLine(st, line) ==
    IF ~line.numeric THEN st
    ELSE IF ~IsRecorder(line.subsys) THEN st
    ELSE IF line.status = 2
    THEN [st EXCEPT !.queue = DictSet(@, line.rid,
                                      <<line.rid, line.subsys, line.cmd, Payload(line.data)>>,
                                      CmdQueueLimit)]
    ELSE IF line.status = 3
    THEN IF line.cmd \in {"SHT", "REC", "SPC"}
         THEN [st EXCEPT !.busy[line.subsys] = TRUE]
         ELSE IF line.cmd \in {"INI", "STP"}
         THEN [st EXCEPT !.busy[line.subsys] = FALSE]
         ELSE IF line.cmd = "RPT" /\ DictHas(st.queue, line.rid)
         THEN LET rptType == DictGet(st.queue, line.rid)[4]
              IN IF rptType = <<"OP-TYPE">>
                 THEN [st EXCEPT !.busy[line.subsys] = ~StartsWith(Payload(line.data), "Idle")]
                 ELSE IF rptType = <<"SUMMARY">>
                 THEN [st EXCEPT !.busy[line.subsys] = SummaryFlag(@, Payload(line.data))]
                 ELSE st
         ELSE st
    ELSE IF line.status = 8
    THEN [st EXCEPT !.busy[line.subsys] = TRUE]
    ELSE st

RECURSIVE ParseLogData(_, _)
ParseLogData(st, lines) ==
    IF lines = <<>> THEN st ELSE ParseLogData(ParseLine(st, Head(lines)), Tail(lines))

Bar == <<"|">>

\* the lines the log may show
LogLines ==
    {LogLine(TRUE, 1, 2, "DR1", "RPT", <<"OP-TYPE", "|">>),
     LogLine(TRUE, 2, 2, "DR1", "RPT", <<"SUMMARY", "|">>),
     LogLine(TRUE, 1, 3, "DR1", "RPT", <<"Recording", "|">>),
     LogLine(TRUE, 2, 3, "DR1", "RPT", <<"WARNING", "|">>),
     LogLine(TRUE, 1, 8, "DR1", "RPT", Bar),
     LogLine(FALSE, 1, 3, "DR1", "STP", Bar),
     LogLine(TRUE, 1, 3, "ASP", "REC", Bar),
     LogLine(TRUE, 1, 3, "DR2", "STP", Bar)}
    \cup {LogLine(TRUE, rid, 3, "DR1", "RPT", <<t, "|">>) : rid \in {1, 2}, t \in {"Idle", "NORMAL"}}
    \cup {LogLine(TRUE, 1, 3, "DR1", cmd, Bar) : cmd \in {"SHT", "REC", "SPC", "INI", "STP"}}

\* the batches one pass may read: up to MaxBatch lines, all but the last one dispatches
Batches ==
    {b \in UNION {[1..n -> LogLines] : n \in 1..MaxBatch} :
        \A i \in 1..(Len(b) - 1) : b[i].status = 2}

\* one pass of pollStation over the lines it could read: parse, then call back for
\* every recorder whose state changed
PollStation(lines) ==
    /\ monThread
    /\ LET new == ParseLogData([busy |-> busy, queue |-> cmdQueue], lines)
           w(dr) == IF created /\ new.busy[dr] # busy[dr]
                    THEN StateChange(WorkerOf(dr), new.busy[dr], globalInhibit[dr], now)
                    ELSE WorkerOf(dr)
       IN /\ cmdQueue' = new.queue
          /\ busy' = new.busy
          /\ callbacks' = [dr \in DRs |-> IF new.busy[dr] # busy[dr]
                                            THEN <<Invocation(busy[dr], new.busy[dr])>>
                                            ELSE callbacks[dr]]
          /\ active' = [dr \in DRs |-> w(dr).active]
          /\ results' = [dr \in DRs |-> w(dr).results]
          /\ inhibit' = [dr \in DRs |-> w(dr).inhibit]
    /\ parsed' = [calls |-> (parsed.calls + 1) % 2, lines |-> lines]
    /\ UNCHANGED <<supVars, monThread, diskVars, histVars, crashVars, auxVars, clockVars,
                   mcsVars,
                   purgeVars, wthread, fifo, pc, ready, orphans, rcl, sn>>

\* The activity monitor reading the event log
NextMonitor ==
    \/ nCalls = 0 /\ Call("INI")
    \/ Start("INI")
    \/ IniRun
    \/ \E lines \in Batches : PollStation(lines)

SpecMonitor == Init /\ [][NextMonitor]_vars

\* a step in which _parseLogData ran
ParseStep == parsed'.calls # parsed.calls

\* the flag of recorder dr after a line, by the rules of C31: b is the flag and q the
\* recorded dispatches before the line
BusyRule(b, q, line, dr) ==
    IF ~line.numeric \/ line.subsys # dr THEN b
    ELSE IF line.status = 3 /\ line.cmd \in {"SHT", "REC", "SPC"} THEN TRUE
    ELSE IF line.status = 3 /\ line.cmd \in {"INI", "STP"} THEN FALSE
    ELSE IF line.status = 3 /\ line.cmd = "RPT"
    THEN IF ~DictHas(q, line.rid) THEN b
         ELSE IF DictGet(q, line.rid)[4] = <<"OP-TYPE">>
         THEN ~(Payload(line.data)[1] = "Idle")
         ELSE IF DictGet(q, line.rid)[4] = <<"SUMMARY">>
         THEN (IF Payload(line.data)[1] = "NORMAL" THEN b ELSE TRUE)
         ELSE b
    ELSE IF line.status = 8 THEN TRUE
    ELSE b

\* C31: after parsing, the busy flag of every recorder follows the rules: a
\* responded SHT/REC/SPC sets busy, a responded INI/STP sets idle, a responded RPT is
\* read with the payload recorded at its dispatch (OP-TYPE: idle iff the response
\* starts with Idle; SUMMARY: busy iff it does not start with NORMAL, else
\* unchanged), status 8 sets busy, and any other line changes no flag.
C31_BusyFollowsRules ==
    [][ParseStep =>
          LET lines == parsed'.lines
              pre == ParseLogData([busy |-> busy, queue |-> cmdQueue],
                                  SubSeq(lines, 1, Len(lines) - 1))
          IN \A dr \in DRs :
                busy'[dr] = BusyRule(pre.busy[dr], pre.queue, lines[Len(lines)], dr)]_vars

\* both kinds of report were dispatched, the recorder is idle, and the SUMMARY
\* report answered NORMAL has just left it idle
C31_Witness ==
    /\ ~busy[FirstDR]
    /\ DictHas(cmdQueue, 1) /\ DictGet(cmdQueue, 1)[4] = <<"OP-TYPE">>
    /\ DictHas(cmdQueue, 2) /\ DictGet(cmdQueue, 2)[4] = <<"SUMMARY">>
    /\ parsed.lines = <<LogLine(TRUE, 2, 3, "DR1", "RPT", <<"NORMAL", "|">>)>>

\* ------------------------------------------------------------ the results cache of a recorder
ResultsLimit == 512   \* LimitedSizeDict(size_limit=512)
MaxKey == 514         \* ids written to one cache

Keys(d) == [i \in 1..Len(d) |-> d[i].key]

\* ManageDR.addCopyCommand: self.results[id] = 'queued ...' for the next id
CacheQueue ==
    /\ LET id == IF resultsDict = <<>> THEN 1 ELSE resultsDict[Len(resultsDict)].key + 1
       IN  /\ id <= MaxKey
           /\ resultsDict' = DictSet(resultsDict, id, "queued", ResultsLimit)
    /\ UNCHANGED <<supVars, monVars, diskVars, histVars, crashVars, clockVars, purgeVars, mcsVars,
                   callVars, queueVars,
                   wthread, inhibit, active, results, fifo, pc, ready, orphans, rcl, sn>>

\* ManageDR.cancelCopyCommand / processQueue: the status of the oldest id still cached is
\* overwritten, while no other entry of the cache has been
CacheStatus(value) ==
    /\ resultsDict # <<>>
    /\ {i \in 1..Len(resultsDict) : resultsDict[i].value # "queued"} = {}
    /\ resultsDict' = DictSet(resultsDict, resultsDict[1].key, value, ResultsLimit)
    /\ UNCHANGED <<supVars, monVars, diskVars, histVars, crashVars, clockVars, purgeVars, mcsVars,
                   callVars, queueVars,
                   wthread, inhibit, active, results, fifo, pc, ready, orphans, rcl, sn>>

NextCache ==
    \/ CacheQueue
    \/ \E value \in {"canceled", "complete"} : CacheStatus(value)

SpecCache == Init /\ [][NextCache]_vars

\* C32: the results cache never holds more than 512 entries; a new key written to a full
\* cache evicts the oldest-inserted key and nothing else, and a write to a key the cache
\* already holds evicts nothing and leaves the order of the keys as it was
C32_CacheBounded ==
    [][/\ Len(resultsDict') <= ResultsLimit
       /\ \/ Keys(resultsDict') = Keys(resultsDict)
          \/ /\ Len(resultsDict) < ResultsLimit
             /\ Keys(resultsDict') = Append(Keys(resultsDict), resultsDict'[Len(resultsDict')].key)
             /\ ~DictHas(resultsDict, resultsDict'[Len(resultsDict')].key)
          \/ /\ Len(resultsDict) = ResultsLimit
             /\ Keys(resultsDict') = Append(Tail(Keys(resultsDict)),
                                            resultsDict'[Len(resultsDict')].key)
             /\ ~DictHas(resultsDict, resultsDict'[Len(resultsDict')].key)
       /\ \A i \in 1..Len(resultsDict) :
              DictHas(resultsDict', resultsDict[i].key)
                  => \/ DictGet(resultsDict', resultsDict[i].key) = resultsDict[i].value
                     \/ Keys(resultsDict') = Keys(resultsDict)]_vars

\* a full cache whose oldest key was overwritten after a first eviction
C32_Witness ==
    /\ Len(resultsDict) = ResultsLimit
    /\ resultsDict[1].key = 2
    /\ resultsDict[1].value = "complete"
    /\ resultsDict[ResultsLimit].key = ResultsLimit + 1

NextDelete ==
    \/ nCalls = 0 /\ Call("INI")
    \/ Start("INI")
    \/ IniRun
    \/ \E dr \in Solo, hostpath \in Files, nw \in BOOLEAN : SRM(dr, hostpath, nw)
    \/ \E dr \in Solo : PAU(dr)
    \/ \E dr \in Solo : RES(dr)
    \/ \E dr \in Solo : MonitorEvent(dr)
    \/ \E dr \in Solo : WorkerCheck(dr)
    \/ \E dr \in Solo : WorkerDrain(dr)
    \/ \E dr \in Solo : WorkerDispatch(dr)
    \/ \E dr \in Solo, stderr \in OneStderr : ExecExit(dr, 0, stderr)

SpecDelete == Init /\ [][NextDelete]_vars

\* the worker starts an executor; the worker clears the executor it has dealt with
StartsExecutor(dr) == active[dr] = None /\ active'[dr] # None
ReapStep(dr) == pc[dr] = "drain" /\ active[dr] # None /\ active'[dr] = None

IsDelete(e) == e.destpath \in {DELETE_MARKER_QUEUE, DELETE_MARKER_NOW}

\* C34: a delete submitted without the immediate flag never has a child: its executor is
\* 'complete' from the start and, when the worker reaps it complete, the file is appended
\* to the completed log; a delete submitted with the flag starts with one rm child;
\* dispatching a delete leaves the remote-transfer semaphore alone
C34_Deletes ==
    [][\A dr \in DRs :
          /\ (active'[dr] # None /\ active'[dr][1].destpath = DELETE_MARKER_QUEUE)
                 => active'[dr][1].thread # "alive"
          /\ (StartsExecutor(dr) /\ active'[dr][1].destpath = DELETE_MARKER_QUEUE)
                 => active'[dr][1].status = "complete"
          /\ (StartsExecutor(dr) /\ active'[dr][1].destpath = DELETE_MARKER_NOW)
                 => active'[dr][1].thread = "alive"
          /\ (StartsExecutor(dr) /\ IsDelete(active'[dr][1]))
                 => rcl' = rcl
          /\ (ReapStep(dr) /\ IsDelete(active[dr][1]))
                 => rcl' = rcl
          /\ (ReapStep(dr) /\ active[dr][1].destpath = DELETE_MARKER_QUEUE
                           /\ active[dr][1].status = "complete")
                 => completedLog'[dr] = Append(completedLog[dr], active[dr][1].hostpath)]_vars

\* ------------------------------------------------------------ terminal statuses
IsTerminal(s) == s \in {"complete", "canceled"} \cup Stderrs \cup {TooSoon}

\* C35: 'complete', 'canceled' and the error statuses are terminal: a pause() or resume()
\* of the worker that finds its executor with one of them leaves the executor's status
\* as it is and starts no child
C35_TerminalStatuses ==
    [][\A dr \in DRs :
          ((PauseCall(dr) \/ ResumeCall(dr)) /\ IsTerminal(active[dr][1].status))
              => /\ active'[dr][1].status = active[dr][1].status
                 /\ ~isRunning(active'[dr][1])]_vars

\* ------------------------------------------------------------ reaping
\* one recorder whose copies all fail, with the operator pausing, resuming and cancelling
NextReap ==
    \/ nCalls = 0 /\ Call("INI")
    \/ Start("INI")
    \/ IniRun
    \/ \E dr \in Solo : SCP(dr, CopyPath, dr, DestPath)
    \/ \E dr \in Solo : PAU(dr)
    \/ \E dr \in Solo : RES(dr)
    \/ \E id \in Ids : SCN(id)
    \/ \E dr \in Solo : MonitorEvent(dr)
    \/ \E dr \in Solo : WorkerCheck(dr)
    \/ \E dr \in Solo : WorkerDrain(dr)
    \/ \E dr \in Solo : WorkerDispatch(dr)
    \/ \E dr \in Solo, stderr \in OneStderr : ExecExit(dr, 1, stderr)

SpecReap == Init /\ [][NextReap]_vars

\* the job of executor e is in the queue of dr again, pending
Requeued(dr, e) ==
    /\ \E i \in 1..Len(fifo'[dr]) : fifo'[dr][i].id = e.id
    /\ HasRow(store', dr, e.id, "pending")

\* the job of executor e is a new line of error_<dr>.log
RecordedFailed(dr, e) ==
    /\ Len(errorLog'[dr]) = Len(errorLog[dr]) + 1
    /\ errorLog'[dr][Len(errorLog'[dr])].id = e.id

\* C36: whenever the worker clears its active job, the job was canceled, or exited
\* successfully, or is recorded as failed, or is pending in the queue again
C36_NoSilentDrop ==
    [][\A dr \in DRs :
          ReapStep(dr)
              => LET e == active[dr][1]
                 IN \/ e.id \in canceledActive \cup canceledPending
                    \/ e.status = "canceled"
                    \/ e.status = "complete"
                    \/ RecordedFailed(dr, e)
                    \/ Requeued(dr, e)]_vars

\* ------------------------------------------------------------ the inhibit flag
\* SmartCopy.resumeCopyQueue(dr), first half: the checks and ManageDR.resume
ResumeWorker(dr) ==
    /\ status = "NORMAL" /\ created
    /\ resuming = {}
    /\ resuming' = {dr}
    /\ iniDied' = iniDied
    /\ active' = [active EXCEPT ![dr] = ResumeQueue(WorkerOf(dr), busy[dr], now).active]
    /\ results' = [results EXCEPT ![dr] = ResumeQueue(WorkerOf(dr), busy[dr], now).results]
    /\ inhibit' = [inhibit EXCEPT ![dr] = ResumeQueue(WorkerOf(dr), busy[dr], now).inhibit]
    /\ UNCHANGED <<supVars, monVars, diskVars, histVars, crashVars, cacheVars, clockVars,
                   queueVars, mcsVars, purgeVars, wthread, fifo, pc, ready, orphans, rcl, sn>>

\* SmartCopy.resumeCopyQueue(dr), second half: self.globalInhibit[dr] = False
ResumeFlag(dr) ==
    /\ dr \in resuming
    /\ resuming' = resuming \ {dr}
    /\ iniDied' = iniDied
    /\ globalInhibit' = [globalInhibit EXCEPT ![dr] = FALSE]
    /\ UNCHANGED <<status, lastLog, activeProcess, spawned, created, nCalls, nCancel, monVars,
                   diskVars, histVars, crashVars, cacheVars, clockVars, mcsVars, queueVars,
                   purgeVars, wthread, inhibit, active, results, fifo, pc, ready,
                   orphans, rcl, sn>>

\* one recorder; the operator's RES runs beside the monitor's callback
NextRace ==
    \/ nCalls = 0 /\ Call("INI")
    \/ Start("INI")
    \/ IniRun
    \/ \E dr \in Solo : SCP(dr, CopyPath, dr, DestPath)
    \/ \E dr \in Solo : resuming = {} /\ PAU(dr)
    \/ \E dr \in Solo : ResumeWorker(dr)
    \/ \E dr \in Solo : ResumeFlag(dr)
    \/ \E dr \in Solo : MonitorEvent(dr)
    \/ \E dr \in Solo : WorkerCheck(dr)
    \/ \E dr \in Solo : WorkerDrain(dr)
    \/ \E dr \in Solo : WorkerDispatch(dr)
    \/ \E dr \in Solo, stderr \in OneStderr : ExecExit(dr, 0, stderr)

SpecRace == Init /\ [][NextRace]_vars

\* no INI or SHT is running and no operator RES is between its two halves
Quiescent ==
    /\ status = "NORMAL" /\ created /\ monThread
    /\ activeProcess = <<>>
    /\ resuming = {}

\* C37: between the calls of PAU, RES and the activity callback, the inhibit flag of every
\* worker of a running supervisor equals (busy OR globalInhibit) of its recorder
C37_InhibitIsBusyOrGlobal ==
    Quiescent => \A dr \in DRs : inhibit[dr] = (busy[dr] \/ globalInhibit[dr])

\* the second half of C37 alone: a worker that is inhibited between the calls has a busy
\* recorder or an operator's pause behind it
InhibitedForAReason ==
    Quiescent => \A dr \in DRs : inhibit[dr] => (busy[dr] \/ globalInhibit[dr])

\* ------------------------------------------------------------ get and task_done
ProcessingRows(dr) ==
    Cardinality({i \in 1..Len(store) :
                    store[i].queue_name = dr /\ store[i].status = "processing"})

\* C38: each recorder's queue has at most one row with status processing, and every get of
\* the worker is followed by exactly one task_done before its next get: the gets not yet
\* answered by a task_done are never more than one and never fewer than none
C38_OneGetOneTaskDone ==
    \A dr \in DRs :
        /\ ProcessingRows(dr) <= 1
        /\ outstanding[dr] \in {0, 1}

\* ------------------------------------------------------------ cancel of an unknown id
\* no results cache holds an entry for id
Unknown(rs, id) == \A dr \in DRs : rs[dr][id] = ""

\* SmartCopy.cancelCopyCommand has passed its status checks and asked the workers
CancelStep == nCancel' = nCancel + 1 /\ nCrash' = nCrash

\* C39: a cancel request for an id that no recorder knows adds no entry to any results
\* cache: the ids unknown before the request are unknown after it
C39_UnknownCancelRejected ==
    [][CancelStep => \A id \in Ids : Unknown(results, id) => Unknown(results', id)]_vars

\* ------------------------------------------------------------ the end of an INI
\* currentState['errorThread']: None from __init__, assigned nowhere else
errorThread == None

\* __iniProcess lines 102-137 as written: 'self.currentState['errorThread'].start()' at line
\* 127 raises AttributeError on None and ends the thread before the status, lastLog and
\* activeProcess are updated
IniRunAsWritten ==
    /\ Count(activeProcess, "INI") > iniDied
    /\ IniThreads
    /\ IF errorThread = None
       THEN /\ iniDied' = iniDied + 1
            /\ UNCHANGED <<status, lastLog, activeProcess>>
       ELSE /\ activeProcess' = RemoveFirst(activeProcess, "INI")
            /\ status' = "NORMAL"
            /\ lastLog' = "INI: finished"
            /\ UNCHANGED iniDied

\* one recorder; INI commands, submissions, the monitor and the worker
NextIni ==
    \/ Call("INI")
    \/ Start("INI")
    \/ IniRunAsWritten
    \/ \E dr \in Solo : SCP(dr, CopyPath, dr, DestPath)
    \/ \E dr \in Solo : MonitorEvent(dr)
    \/ \E dr \in Solo : WorkerCheck(dr)
    \/ \E dr \in Solo : WorkerDispatch(dr)
    \/ Tick

\* the INI thread and the worker threads are daemon threads the interpreter keeps scheduling
SpecIni ==
    /\ Init /\ [][NextIni]_vars
    /\ WF_vars(Start("INI"))
    /\ SF_vars(IniRunAsWritten)
    /\ WF_vars(\E dr \in Solo : WorkerCheck(dr))
    /\ WF_vars(\E dr \in Solo : WorkerDispatch(dr))

IniAccepted == InSeq(spawned, "INI")

IniComplete ==
    /\ status = "NORMAL"
    /\ ~InSeq(activeProcess, "INI")
    /\ monThread
    /\ \A dr \in DRs : wthread[dr]

\* C40: every accepted INI eventually completes: the status is NORMAL, the workers and the
\* monitor are running and 'INI' is no longer in activeProcess
C40_IniCompletes == IniAccepted ~> IniComplete

====
